---- MODULE Spec2Model ----
(***************************************************************************)
(* Kizuna storage engine: file manager, slotted page, buffer pool with     *)
(* freelist trunks, chained table heap, catalog manager and DDL executor.  *)
(*                                                                         *)
(* The program is single-threaded; every public call is one atomic step.   *)
(* A call is computed by operators that transform a record `s` holding the *)
(* whole program state; s.err is "OK" or the StatusCode of the exception   *)
(* that left the call, and the state in s is the state the exception left  *)
(* behind.  Frames are numbered 1..capacity_ (the code uses 0-based        *)
(* indices and size_t(-1) for "no frame"; here 0 is "no frame").           *)
(*                                                                         *)
(* A page is a record of its header fields and of its body.  The body is   *)
(* read through one of three layouts (slot directory and records, trunk    *)
(* body, metadata body); they are kept as separate fields, and memset(0)   *)
(* clears all three.                                                       *)
(***************************************************************************)
EXTENDS Integers, Sequences, FiniteSets, TLC

\* ---------------------------------------------------------------- bounds
\* scaled-down config::PAGE_SIZE (4096 in the source)
PAGE_SIZE == 42
\* capacity_ of the PageManager under test
Capacity == 2
\* the file never grows beyond this many pages
MaxPages == 6
\* a caller never holds more than this many pins on one page
MaxPin == 2
\* length cap of the LRU list (std::list is unbounded)
MaxLru == 3
\* number of buffer pool calls in a run
MaxSteps == 10
\* number of table heap calls in a run
MaxHeapSteps == 6
\* number of DDL statements and flushes in a run
MaxDdlSteps == 5
\* capacity_ of the PageManager the DDL statements run on
DdlCapacity == 3
\* columns of a CREATE TABLE statement
MaxCols == 2
\* distinct table names
MaxNames == 2

\* ------------------------------------------------------ program constants
PAGE_HEADER_SIZE == 24
FIRST_PAGE_ID == 1
INVALID_PAGE_ID == 0
TOMBSTONE == 65535
MAX_RECORD_SIZE == PAGE_SIZE - PAGE_HEADER_SIZE - 16
U16_MAX == 65535
CATALOG_SCHEMA_VERSION == 2
SLOT_SIZE == 2
TRUNK_HEADER_SIZE == 8

PageIds == 1..MaxPages
\* ids the page table can hold: one more, for the allocation that hits the bound
TableDomain == 1..(MaxPages + 1)
NoFrame == 0

\* ------------------------------------------------------------ state
VARIABLES
    disk,                 \* the database file: disk[id] is the image of page id
    frames,               \* PageManager::frames_
    page_table,           \* PageManager::page_table_ (0 = no entry)
    lru,                  \* PageManager::lru_, front first; a node is [id, fr]
                          \* where fr is the frame whose lru_it points at it
    first_trunk_id_,      \* PageManager::first_trunk_id_
    free_count_,          \* PageManager::free_count_
    catalog_tables_root_, \* PageManager::catalog_tables_root_
    catalog_columns_root_,\* PageManager::catalog_columns_root_
    next_table_id_,       \* PageManager::next_table_id_
    root_page_id_,        \* TableHeap::root_page_id_
    tail_page_id_,        \* TableHeap::tail_page_id_
    tables_loaded_,       \* CatalogManager::tables_loaded_
    tables_cache_,        \* CatalogManager::tables_cache_
    sidecars,             \* table ids whose sidecar file exists
    storage_,             \* a Page object of its own: its header fields and
                          \* Page::storage_ byte by byte
    op,                   \* the last call: its name, arguments, result, error
    hist                  \* bookkeeping of the caller (ids it holds, rows it stored)

vars == <<disk, frames, page_table, lru, first_trunk_id_, free_count_,
          catalog_tables_root_, catalog_columns_root_, next_table_id_,
          root_page_id_, tail_page_id_, tables_loaded_, tables_cache_,
          sidecars, storage_, op, hist>>

\* a local variable of the code: F is applied to the value of v, which is
\* computed once, as an initialised local is
Bind(v, F(_)) == F(v)

\* ------------------------------------------------------------ Page
ZeroMeta == [magic |-> FALSE, version |-> 0, first_trunk_id |-> 0, free_count |-> 0,
             catalog_tables_root |-> 0, catalog_columns_root |-> 0, next_table_id |-> 0]

\* a page image of all-zero bytes (FileManager::allocate_page, memset)
ZeroPage == [page_id |-> 0, next_page_id |-> 0, prev_page_id |-> 0,
             record_count |-> 0, free_space_offset |-> 0, slot_count |-> 0,
             page_type |-> "INVALID",
             slots |-> <<>>, tnext |-> 0, tleaves |-> <<>>, meta |-> ZeroMeta]

\* memset(pg.data(), 0, PAGE_SIZE)
memset_zero(p) == ZeroPage

\* Page::init
Page_init(p, type, id) ==
    [p EXCEPT !.page_id = id, !.next_page_id = INVALID_PAGE_ID,
              !.prev_page_id = INVALID_PAGE_ID, !.record_count = 0,
              !.slot_count = 0, !.page_type = type,
              !.free_space_offset = PAGE_HEADER_SIZE]

\* Page::Page()
NewPageObject == Page_init(ZeroPage, "INVALID", 0)

\* the result of a Page call: the page it leaves, the bool it returns, the
\* slot or bytes it hands out, and the StatusCode if it throws
PageResult(p, ok, slot, data, err) == [p |-> p, ok |-> ok, slot |-> slot, data |-> data, err |-> err]

\* slot directory entry i (1-based here, slot_id_t i-1 in the code)
SetSlot(slots, i, v) == IF i <= Len(slots) THEN [slots EXCEPT ![i] = v] ELSE Append(slots, v)

\* Page::free_bytes
free_bytes(p) ==
    Bind(PAGE_SIZE - (p.slot_count + 1) * SLOT_SIZE, LAMBDA records_limit :
       IF p.free_space_offset > records_limit THEN 0
       ELSE records_limit - p.free_space_offset)

\* INVALID becomes DATA at the head of Page::insert, erase and update
AsData(p) == IF p.page_type = "INVALID" THEN [p EXCEPT !.page_type = "DATA"] ELSE p

\* the header repairs at the head of Page::insert and Page::erase
RepairHeader(p) ==
    Bind((PAGE_SIZE - PAGE_HEADER_SIZE) \div SLOT_SIZE, LAMBDA max_slots :
    Bind(IF p.slot_count > max_slots
         THEN [p EXCEPT !.slot_count = 0, !.record_count = 0] ELSE p, LAMBDA p1 :
    Bind(IF p1.record_count > p1.slot_count
         THEN [p1 EXCEPT !.record_count = p1.slot_count] ELSE p1, LAMBDA p2 :
       IF p2.free_space_offset < PAGE_HEADER_SIZE \/ p2.free_space_offset > PAGE_SIZE
       THEN [p2 EXCEPT !.free_space_offset = PAGE_HEADER_SIZE] ELSE p2)))

\* Page::insert
Page_insert(p, payload) ==
    Bind(AsData(p), LAMBDA h0 :
       IF h0.page_type # "DATA" THEN PageResult(h0, FALSE, 0, <<>>, "INVALID_PAGE_TYPE")
       ELSE
       Bind(RepairHeader(h0), LAMBDA h :
       Bind(Len(payload), LAMBDA len :
       Bind(len + 2 + SLOT_SIZE, LAMBDA needed :
       Bind(PAGE_SIZE - (h.slot_count + 1) * SLOT_SIZE, LAMBDA records_limit :
       Bind(h.free_space_offset, LAMBDA record_start :
          IF needed > free_bytes(h) THEN PageResult(h, FALSE, 0, <<>>, "OK")
          ELSE IF record_start + 2 + len > records_limit THEN PageResult(h, FALSE, 0, <<>>, "OK")
          ELSE PageResult(
                 [h EXCEPT !.slots = SetSlot(h.slots, h.slot_count + 1,
                                             [off |-> record_start, data |-> payload]),
                           !.slot_count = h.slot_count + 1,
                           !.record_count = h.record_count + 1,
                           !.free_space_offset = record_start + 2 + len],
                 TRUE, h.slot_count, <<>>, "OK")))))))

\* a read that does not look at the page type
Page_read_any_type(p, slot) ==
    IF slot >= p.slot_count \/ slot >= Len(p.slots) THEN PageResult(p, FALSE, 0, <<>>, "OK")
    ELSE IF p.slots[slot + 1].off = TOMBSTONE THEN PageResult(p, FALSE, 0, <<>>, "OK")
    ELSE PageResult(p, TRUE, slot, p.slots[slot + 1].data, "OK")

\* Page::read
Page_read(p, slot) ==
    IF p.page_type # "DATA" /\ p.page_type # "INVALID"
    THEN PageResult(p, FALSE, 0, <<>>, "INVALID_PAGE_TYPE")
    ELSE IF slot >= p.slot_count \/ slot >= Len(p.slots) THEN PageResult(p, FALSE, 0, <<>>, "OK")
    ELSE Bind(p.slots[slot + 1].off, LAMBDA record_off :
         Bind(IF p.free_space_offset < PAGE_HEADER_SIZE
                 \/ p.free_space_offset > PAGE_SIZE
              THEN PAGE_HEADER_SIZE ELSE p.free_space_offset, LAMBDA records_end :
         Bind(Len(p.slots[slot + 1].data), LAMBDA len :
            IF record_off = TOMBSTONE THEN PageResult(p, FALSE, 0, <<>>, "OK")
            ELSE IF record_off + 2 > records_end THEN PageResult(p, FALSE, 0, <<>>, "OK")
            ELSE IF record_off + 2 + len > records_end THEN PageResult(p, FALSE, 0, <<>>, "OK")
            ELSE PageResult(p, TRUE, slot, p.slots[slot + 1].data, "OK"))))

\* Page::erase
Page_erase(p, slot) ==
    Bind(AsData(p), LAMBDA h0 :
       IF h0.page_type # "DATA" THEN PageResult(h0, FALSE, 0, <<>>, "INVALID_PAGE_TYPE")
       ELSE
       Bind(RepairHeader(h0), LAMBDA h :
          IF slot >= h.slot_count \/ slot >= Len(h.slots) THEN PageResult(h, FALSE, 0, <<>>, "OK")
          ELSE IF h.slots[slot + 1].off = TOMBSTONE THEN PageResult(h, FALSE, 0, <<>>, "OK")
          ELSE PageResult([h EXCEPT !.slots[slot + 1].off = TOMBSTONE,
                                    !.record_count = h.record_count - 1],
                          TRUE, slot, <<>>, "OK")))

\* Page::update
Page_update(p, slot, payload) ==
    Bind(AsData(p), LAMBDA h :
       IF h.page_type # "DATA" THEN PageResult(h, FALSE, 0, <<>>, "INVALID_PAGE_TYPE")
       ELSE IF slot >= h.slot_count \/ slot >= Len(h.slots) THEN PageResult(h, FALSE, 0, <<>>, "OK")
       ELSE IF h.slots[slot + 1].off = TOMBSTONE THEN PageResult(h, FALSE, 0, <<>>, "OK")
       ELSE IF Len(payload) > Len(h.slots[slot + 1].data) THEN PageResult(h, FALSE, 0, <<>>, "OK")
       ELSE PageResult([h EXCEPT !.slots[slot + 1].data = payload], TRUE, slot, <<>>, "OK"))

\* ------------------------------------------------------------ Page, byte by byte
\* The same Page with storage_ spelled out: bytes[i] is storage_[i]; the
\* header fields the record layer uses are kept as fields, the slot directory
\* and the records are read from and written to the bytes as the code does.
PageTypes == {"INVALID", "DATA", "INDEX", "OVERFLOW_PAGE", "METADATA", "FREE"}

\* memcpy(&v, base + pos, 2) of a little-endian uint16_t
u16_at(b, pos) == b[pos] + 256 * b[pos + 1]

\* memcpy(base + pos, &v, 2)
put_u16(b, pos, v) == [b EXCEPT ![pos] = v % 256, ![pos + 1] = v \div 256]

\* memcpy(base + pos, payload, len)
memcpy_in(b, pos, payload) ==
    [i \in DOMAIN b |-> IF i >= pos /\ i < pos + Len(payload) THEN payload[i - pos + 1] ELSE b[i]]

\* memcpy(out.data(), base + pos, len)
memcpy_out(b, pos, len) == [i \in 1..len |-> b[pos + i - 1]]

\* memset(base + pos, 0, n)
memset_at(b, pos, n) == [i \in DOMAIN b |-> IF i >= pos /\ i < pos + n THEN 0 ELSE b[i]]

\* Page::Page(): storage_ zeroed, header set
NewStorage == [page_id |-> 0, record_count |-> 0, free_space_offset |-> PAGE_HEADER_SIZE,
               slot_count |-> 0, page_type |-> "INVALID",
               bytes |-> [i \in 0..(PAGE_SIZE - 1) |-> 0]]

\* Page::init: the header is reset, the body is left as it is
Storage_init(p, type, id) ==
    [p EXCEPT !.page_id = id, !.record_count = 0, !.slot_count = 0,
              !.page_type = type, !.free_space_offset = PAGE_HEADER_SIZE]

\* position of slot directory entry `slot` in storage_
slot_pos(slot) == PAGE_SIZE - (slot + 1) * SLOT_SIZE

\* Page::insert on storage_
Storage_insert(p, payload) ==
    Bind(AsData(p), LAMBDA h0 :
       IF h0.page_type # "DATA" THEN PageResult(h0, FALSE, 0, <<>>, "INVALID_PAGE_TYPE")
       ELSE
       Bind(RepairHeader(h0), LAMBDA h :
       Bind(Len(payload), LAMBDA len :
       Bind(len + 2 + SLOT_SIZE, LAMBDA needed :
       Bind(PAGE_SIZE - (h.slot_count + 1) * SLOT_SIZE, LAMBDA records_limit :
       Bind(h.free_space_offset, LAMBDA record_start :
          IF needed > free_bytes(h) THEN PageResult(h, FALSE, 0, <<>>, "OK")
          ELSE IF record_start + 2 + len > records_limit THEN PageResult(h, FALSE, 0, <<>>, "OK")
          ELSE PageResult(
                 [h EXCEPT !.bytes = put_u16(memcpy_in(put_u16(h.bytes, record_start, len),
                                                       record_start + 2, payload),
                                             slot_pos(h.slot_count), record_start),
                           !.slot_count = h.slot_count + 1,
                           !.record_count = h.record_count + 1,
                           !.free_space_offset = record_start + 2 + len],
                 TRUE, h.slot_count, <<>>, "OK")))))))

\* Page::read on storage_
Storage_read(p, slot) ==
    IF p.page_type # "DATA" /\ p.page_type # "INVALID"
    THEN PageResult(p, FALSE, 0, <<>>, "INVALID_PAGE_TYPE")
    ELSE IF slot >= p.slot_count THEN PageResult(p, FALSE, 0, <<>>, "OK")
    ELSE Bind(u16_at(p.bytes, slot_pos(slot)), LAMBDA record_off :
         Bind(IF p.free_space_offset < PAGE_HEADER_SIZE
                 \/ p.free_space_offset > PAGE_SIZE
              THEN PAGE_HEADER_SIZE ELSE p.free_space_offset, LAMBDA records_end :
            IF record_off = TOMBSTONE THEN PageResult(p, FALSE, 0, <<>>, "OK")
            ELSE IF record_off + 2 > records_end THEN PageResult(p, FALSE, 0, <<>>, "OK")
            ELSE Bind(u16_at(p.bytes, record_off), LAMBDA len :
                    IF record_off + 2 + len > records_end THEN PageResult(p, FALSE, 0, <<>>, "OK")
                    ELSE PageResult(p, TRUE, slot,
                                    memcpy_out(p.bytes, record_off + 2, len), "OK"))))

\* an erase that writes the tombstone and leaves record_count as it is
Storage_erase_without_count(p, slot) ==
    Bind(AsData(p), LAMBDA h :
       IF h.page_type # "DATA" THEN PageResult(h, FALSE, 0, <<>>, "INVALID_PAGE_TYPE")
       ELSE IF slot >= h.slot_count THEN PageResult(h, FALSE, 0, <<>>, "OK")
       ELSE IF u16_at(h.bytes, slot_pos(slot)) = TOMBSTONE THEN PageResult(h, FALSE, 0, <<>>, "OK")
       ELSE PageResult([h EXCEPT !.bytes = put_u16(h.bytes, slot_pos(slot), TOMBSTONE)],
                       TRUE, slot, <<>>, "OK"))

\* Page::erase on storage_
Storage_erase(p, slot) ==
    Bind(AsData(p), LAMBDA h0 :
       IF h0.page_type # "DATA" THEN PageResult(h0, FALSE, 0, <<>>, "INVALID_PAGE_TYPE")
       ELSE
       Bind(RepairHeader(h0), LAMBDA h :
          IF slot >= h.slot_count THEN PageResult(h, FALSE, 0, <<>>, "OK")
          ELSE IF u16_at(h.bytes, slot_pos(slot)) = TOMBSTONE THEN PageResult(h, FALSE, 0, <<>>, "OK")
          ELSE PageResult([h EXCEPT !.bytes = put_u16(h.bytes, slot_pos(slot), TOMBSTONE),
                                    !.record_count = h.record_count - 1],
                          TRUE, slot, <<>>, "OK")))

\* an update that writes the payload whatever the length of the stored record
Storage_update_any_length(p, slot, payload) ==
    Bind(AsData(p), LAMBDA h :
       IF h.page_type # "DATA" THEN PageResult(h, FALSE, 0, <<>>, "INVALID_PAGE_TYPE")
       ELSE IF slot >= h.slot_count THEN PageResult(h, FALSE, 0, <<>>, "OK")
       ELSE Bind(u16_at(h.bytes, slot_pos(slot)), LAMBDA record_off :
               IF record_off = TOMBSTONE THEN PageResult(h, FALSE, 0, <<>>, "OK")
               ELSE PageResult(
                      [h EXCEPT !.bytes = memcpy_in(put_u16(h.bytes, record_off, Len(payload)),
                                                    record_off + 2, payload)],
                      TRUE, slot, <<>>, "OK")))

\* Page::update on storage_
Storage_update(p, slot, payload) ==
    Bind(AsData(p), LAMBDA h :
       IF h.page_type # "DATA" THEN PageResult(h, FALSE, 0, <<>>, "INVALID_PAGE_TYPE")
       ELSE IF slot >= h.slot_count THEN PageResult(h, FALSE, 0, <<>>, "OK")
       ELSE Bind(u16_at(h.bytes, slot_pos(slot)), LAMBDA record_off :
               IF record_off = TOMBSTONE THEN PageResult(h, FALSE, 0, <<>>, "OK")
               ELSE Bind(u16_at(h.bytes, record_off), LAMBDA current_len :
                    Bind(Len(payload), LAMBDA len :
                       IF len > current_len THEN PageResult(h, FALSE, 0, <<>>, "OK")
                       ELSE PageResult(
                              [h EXCEPT !.bytes =
                                   memset_at(memcpy_in(put_u16(h.bytes, record_off, len),
                                                       record_off + 2, payload),
                                             record_off + 2 + len, current_len - len)],
                              TRUE, slot, <<>>, "OK")))))

\* ------------------------------------------------------------ FileManager
page_count(d) == Len(d)

\* FileManager::write_page: writes at (id-1)*PAGE_SIZE, growing the file
write_page(d, id, p) ==
    IF id <= Len(d) THEN [d EXCEPT ![id] = p]
    ELSE d \o [i \in 1..(id - Len(d) - 1) |-> ZeroPage] \o <<p>>

\* FileManager::read_page succeeds iff the page lies inside the file
can_read_page(d, id) == id >= FIRST_PAGE_ID /\ id <= Len(d)

\* ------------------------------------------------------------ exceptions
Throw(s, code) == [s EXCEPT !.err = code]
Ok(s) == s.err = "OK"

\* ------------------------------------------------------------ PageManager
\* PageManager::trunk_capacity
trunk_capacity == (PAGE_SIZE - PAGE_HEADER_SIZE - TRUNK_HEADER_SIZE) \div 4

\* PageManager::save_metadata that persists next_table_id as 1
save_metadata_without_next_id(s) ==
    Bind([magic |-> TRUE, version |-> s.catalog_version_,
          first_trunk_id |-> s.first_trunk_id_, free_count |-> s.free_count_,
          catalog_tables_root |-> s.catalog_tables_root_,
          catalog_columns_root |-> s.catalog_columns_root_,
          next_table_id |-> 1], LAMBDA m :
       [s EXCEPT !.disk = write_page(s.disk, FIRST_PAGE_ID,
                                     [s.disk[FIRST_PAGE_ID] EXCEPT !.meta = m])])

\* PageManager::save_metadata
save_metadata(s) ==
    Bind([magic |-> TRUE, version |-> s.catalog_version_,
          first_trunk_id |-> s.first_trunk_id_, free_count |-> s.free_count_,
          catalog_tables_root |-> s.catalog_tables_root_,
          catalog_columns_root |-> s.catalog_columns_root_,
          next_table_id |-> s.next_table_id_], LAMBDA m :
       [s EXCEPT !.disk = write_page(s.disk, FIRST_PAGE_ID,
                                     [s.disk[FIRST_PAGE_ID] EXCEPT !.meta = m])])

\* PageManager::find_free_frame
find_free_frame(fs) ==
    IF \E i \in DOMAIN fs : fs[i].id = 0
    THEN CHOOSE i \in DOMAIN fs : fs[i].id = 0 /\ \A j \in DOMAIN fs : j < i => fs[j].id # 0
    ELSE NoFrame

\* lru_.erase(fr.lru_it)
lru_erase(l, idx) == SelectSeq(l, LAMBDA n : n.fr # idx)

\* the node a frame's lru_it pointed at stays in the list when the frame
\* stops using it (in_lru = false without erase, or lru_it overwritten)
lru_orphan(l, idx) == [i \in 1..Len(l) |-> IF l[i].fr = idx THEN [l[i] EXCEPT !.fr = NoFrame] ELSE l[i]]

\* lru_.push_front(id); fr.lru_it = lru_.begin()
lru_push_front(l, id, idx) == <<[id |-> id, fr |-> idx]>> \o lru_orphan(l, idx)

\* PageManager::evict_frame; the frame index is returned in s.out
evict_frame(s) ==
    IF s.lru = <<>> THEN Throw(s, "CACHE_FULL")
    ELSE Bind(s.lru[Len(s.lru)].id, LAMBDA victim_id :
         Bind(SubSeq(s.lru, 1, Len(s.lru) - 1), LAMBDA l1 :
         Bind(s.page_table[victim_id], LAMBDA idx :
         Bind([s EXCEPT !.lru = l1], LAMBDA s1 :
            IF idx = NoFrame THEN Throw(s1, "INTERNAL_ERROR")
            ELSE IF s.frames[idx].pin_count # 0 THEN Throw(s1, "INTERNAL_ERROR")
            ELSE Bind(s.frames[idx], LAMBDA fr :
                 Bind(IF fr.dirty THEN write_page(s.disk, fr.id, fr.page) ELSE s.disk, LAMBDA d1 :
                    [s1 EXCEPT !.disk = d1,
                               !.page_table[victim_id] = NoFrame,
                               !.lru = lru_orphan(l1, idx),
                               !.frames[idx] = [fr EXCEPT !.dirty = FALSE, !.id = 0,
                                                          !.in_lru = FALSE],
                               !.out = idx]))))))

\* PageManager::obtain_frame_for; the frame index is returned in s.out
obtain_frame_for(s, id, pin) ==
    Bind(find_free_frame(s.frames), LAMBDA free_idx :
    Bind(IF free_idx = NoFrame THEN evict_frame(s) ELSE [s EXCEPT !.out = free_idx], LAMBDA s1 :
       IF ~Ok(s1) THEN s1
       ELSE Bind(s1.out, LAMBDA idx :
            Bind([s1.frames[idx] EXCEPT !.id = id, !.dirty = FALSE,
                                        !.pin_count = IF pin THEN 1 ELSE 0,
                                        !.in_lru = ~pin], LAMBDA fr :
               [s1 EXCEPT !.frames[idx] = fr,
                          !.lru = IF pin THEN lru_orphan(s1.lru, idx)
                                  ELSE lru_push_front(s1.lru, id, idx),
                          !.page_table[id] = idx,
                          !.out = idx]))))

\* PageManager::fetch; the frame holding the page is returned in s.out
fetch(s, id, pin) ==
    IF id < FIRST_PAGE_ID THEN Throw(s, "PAGE_NOT_FOUND")
    ELSE IF s.page_table[id] # NoFrame
    THEN Bind(s.page_table[id], LAMBDA idx :
         Bind(s.frames[idx], LAMBDA fr :
            IF pin
            THEN [s EXCEPT !.lru = IF fr.pin_count = 0 /\ fr.in_lru
                                   THEN lru_erase(s.lru, idx) ELSE s.lru,
                           !.frames[idx] = [fr EXCEPT
                               !.in_lru = IF fr.pin_count = 0 /\ fr.in_lru THEN FALSE ELSE fr.in_lru,
                               !.pin_count = fr.pin_count + 1],
                           !.out = idx]
            ELSE IF fr.pin_count = 0
            THEN [s EXCEPT !.lru = lru_push_front(IF fr.in_lru THEN lru_erase(s.lru, idx)
                                                  ELSE s.lru, id, idx),
                           !.frames[idx] = [fr EXCEPT !.in_lru = TRUE],
                           !.out = idx]
            ELSE [s EXCEPT !.out = idx]))
    ELSE Bind(obtain_frame_for(s, id, pin), LAMBDA s1 :
            IF ~Ok(s1) THEN s1
            ELSE Bind(s1.out, LAMBDA idx :
                 Bind(s1.frames[idx], LAMBDA fr :
                    IF can_read_page(s1.disk, id)
                    THEN [s1 EXCEPT !.frames[idx] = [fr EXCEPT !.page = s1.disk[id]]]
                    ELSE Throw([s1 EXCEPT
                                  !.page_table[id] = NoFrame,
                                  !.frames[idx] = [fr EXCEPT !.id = 0,
                                      !.in_lru = IF fr.pin_count = 0 /\ fr.in_lru
                                                 THEN FALSE ELSE fr.in_lru],
                                  !.lru = IF fr.pin_count = 0 /\ fr.in_lru
                                          THEN lru_erase(s1.lru, idx) ELSE s1.lru],
                               "PAGE_NOT_FOUND"))))

\* PageManager::unpin with fr.dirty = dirty in place of the sticky assignment
unpin_assigning_dirty(s, id, dirty) ==
    IF s.page_table[id] = NoFrame THEN Throw(s, "PAGE_NOT_FOUND")
    ELSE Bind(s.page_table[id], LAMBDA idx :
         Bind(s.frames[idx], LAMBDA fr :
            IF fr.pin_count = 0 THEN Throw(s, "PAGE_LOCKED")
            ELSE Bind([fr EXCEPT !.pin_count = fr.pin_count - 1, !.dirty = dirty], LAMBDA fr1 :
                    IF fr1.pin_count = 0
                    THEN [s EXCEPT !.lru = lru_push_front(IF fr1.in_lru THEN lru_erase(s.lru, idx)
                                                          ELSE s.lru, id, idx),
                                   !.frames[idx] = [fr1 EXCEPT !.in_lru = TRUE]]
                    ELSE [s EXCEPT !.frames[idx] = fr1])))

\* PageManager::unpin
unpin(s, id, dirty) ==
    IF s.page_table[id] = NoFrame THEN Throw(s, "PAGE_NOT_FOUND")
    ELSE Bind(s.page_table[id], LAMBDA idx :
         Bind(s.frames[idx], LAMBDA fr :
            IF fr.pin_count = 0 THEN Throw(s, "PAGE_LOCKED")
            ELSE Bind([fr EXCEPT !.pin_count = fr.pin_count - 1,
                                 !.dirty = IF dirty THEN TRUE ELSE fr.dirty], LAMBDA fr1 :
                    IF fr1.pin_count = 0
                    THEN [s EXCEPT !.lru = lru_push_front(IF fr1.in_lru THEN lru_erase(s.lru, idx)
                                                          ELSE s.lru, id, idx),
                                   !.frames[idx] = [fr1 EXCEPT !.in_lru = TRUE]]
                    ELSE [s EXCEPT !.frames[idx] = fr1])))

\* PageManager::flush
flush(s, id) ==
    IF s.page_table[id] = NoFrame THEN s
    ELSE Bind(s.page_table[id], LAMBDA idx :
         Bind(s.frames[idx], LAMBDA fr :
            IF fr.dirty
            THEN [s EXCEPT !.disk = write_page(s.disk, fr.id, fr.page),
                           !.frames[idx] = [fr EXCEPT !.dirty = FALSE]]
            ELSE s))

\* PageManager::flush_all: every frame the page table maps, in any order
\* (the frames written are distinct, so the order does not matter)
RECURSIVE flush_ids(_, _)
flush_ids(s, ids) ==
    IF ids = {} THEN s
    ELSE Bind(CHOOSE x \in ids : \A y \in ids : x <= y, LAMBDA id :
            flush_ids(flush(s, id), ids \ {id}))

flush_all(s) == flush_ids(s, {id \in TableDomain : s.page_table[id] # NoFrame})

\* PageManager::trunk_write_new
trunk_write_new(s, trunk_id, next_trunk) ==
    [s EXCEPT !.disk = write_page(s.disk, trunk_id,
                                  [s.disk[trunk_id] EXCEPT !.tnext = next_trunk,
                                                           !.tleaves = <<>>])]

\* PageManager::trunk_next
trunk_next(s, trunk_id) == s.disk[trunk_id].tnext

\* PageManager::trunk_pop_leaf that reads the last leaf and leaves leaf_count as it is
trunk_pop_leaf_keeping_count(s, trunk_id) ==
    Bind(s.disk[trunk_id], LAMBDA t :
       IF Len(t.tleaves) = 0 THEN [s EXCEPT !.ok = FALSE]
       ELSE [s EXCEPT !.disk = write_page(s.disk, trunk_id, t),
                      !.out = t.tleaves[Len(t.tleaves)],
                      !.ok = TRUE])

\* PageManager::trunk_pop_leaf; the result is returned in s.ok, out_leaf in s.out
trunk_pop_leaf(s, trunk_id) ==
    Bind(s.disk[trunk_id], LAMBDA t :
       IF Len(t.tleaves) = 0 THEN [s EXCEPT !.ok = FALSE]
       ELSE [s EXCEPT !.disk = write_page(s.disk, trunk_id,
                                  [t EXCEPT !.tleaves = SubSeq(t.tleaves, 1, Len(t.tleaves) - 1)]),
                      !.out = t.tleaves[Len(t.tleaves)],
                      !.ok = TRUE])

\* PageManager::new_page; the page id is returned in s.out
new_page(s, type) ==
    Bind(IF s.first_trunk_id_ # 0 /\ s.free_count_ > 0
         THEN Bind(trunk_pop_leaf(s, s.first_trunk_id_), LAMBDA p :
                 IF p.ok
                 THEN save_metadata([p EXCEPT !.free_count_ = s.free_count_ - 1, !.ok = s.ok])
                 ELSE save_metadata(
                        [s EXCEPT !.first_trunk_id_ = trunk_next(s, s.first_trunk_id_),
                                  !.free_count_ = s.free_count_ - 1,
                                  !.out = s.first_trunk_id_]))
         ELSE \* fm_.allocate_page()
              [s EXCEPT !.disk = write_page(s.disk, page_count(s.disk) + 1, ZeroPage),
                        !.out = page_count(s.disk) + 1], LAMBDA s1 :
    Bind(s1.out, LAMBDA id :
    Bind(obtain_frame_for(s1, id, TRUE), LAMBDA s2 :
       IF ~Ok(s2) THEN s2
       ELSE Bind(s2.out, LAMBDA idx :
            Bind([s2.frames[idx] EXCEPT !.page = Page_init(memset_zero(@), type, id),
                                        !.dirty = TRUE], LAMBDA fr :
            Bind(flush([s2 EXCEPT !.frames[idx] = fr], id), LAMBDA s3 :
               [s3 EXCEPT !.frames[idx].dirty = FALSE, !.out = id]))))))

\* PageManager::free_page
free_page(s, id) ==
    IF id < FIRST_PAGE_ID + 1 THEN Throw(s, "INVALID_ARGUMENT")
    ELSE
    Bind(fetch(s, id, TRUE), LAMBDA s1 :
       IF ~Ok(s1) THEN s1
       ELSE
       Bind(s1.out, LAMBDA idx :
       Bind(unpin([s1 EXCEPT !.frames[idx].page =
                       Page_init(memset_zero(@), "FREE", id)], id, TRUE), LAMBDA s2 :
       Bind(IF s2.first_trunk_id_ # 0
            THEN Bind(s2.disk[s2.first_trunk_id_], LAMBDA trunk :
                    IF Len(trunk.tleaves) < trunk_capacity
                    THEN [s2 EXCEPT !.disk = write_page(s2.disk, s2.first_trunk_id_,
                                         [trunk EXCEPT !.tleaves = Append(@, id)])]
                    ELSE save_metadata(
                           [trunk_write_new(s2, id, s2.first_trunk_id_)
                              EXCEPT !.first_trunk_id_ = id]))
            ELSE save_metadata([trunk_write_new(s2, id, 0) EXCEPT !.first_trunk_id_ = id]), LAMBDA s3 :
          save_metadata([s3 EXCEPT !.free_count_ = s3.free_count_ + 1])))))


\* PageManager::init_metadata_if_needed without the test for an empty file
init_metadata_always(s) ==
    Bind(write_page(s.disk, FIRST_PAGE_ID, Page_init(NewPageObject, "METADATA", FIRST_PAGE_ID)), LAMBDA d2 :
    Bind(page_count(d2) + 1, LAMBDA t :
    Bind(write_page(write_page(d2, t, ZeroPage), t, Page_init(NewPageObject, "DATA", t)), LAMBDA d3 :
    Bind(page_count(d3) + 1, LAMBDA c :
    Bind(write_page(write_page(d3, c, ZeroPage), c, Page_init(NewPageObject, "DATA", c)), LAMBDA d4 :
       save_metadata([s EXCEPT !.disk = d4,
                               !.catalog_tables_root_ = t,
                               !.catalog_columns_root_ = c,
                               !.first_trunk_id_ = 0, !.free_count_ = 0,
                               !.next_table_id_ = 1,
                               !.catalog_version_ = CATALOG_SCHEMA_VERSION]))))))

\* PageManager::init_metadata_if_needed
init_metadata_if_needed(s) ==
    IF page_count(s.disk) # 0 THEN s
    ELSE Bind(write_page(s.disk, 1, ZeroPage), LAMBDA d1 :
         Bind(write_page(d1, FIRST_PAGE_ID, Page_init(NewPageObject, "METADATA", FIRST_PAGE_ID)), LAMBDA d2 :
         Bind(page_count(d2) + 1, LAMBDA t :
         Bind(write_page(write_page(d2, t, ZeroPage), t, Page_init(NewPageObject, "DATA", t)), LAMBDA d3 :
         Bind(page_count(d3) + 1, LAMBDA c :
         Bind(write_page(write_page(d3, c, ZeroPage), c, Page_init(NewPageObject, "DATA", c)), LAMBDA d4 :
            save_metadata([s EXCEPT !.disk = d4,
                                    !.catalog_tables_root_ = t,
                                    !.catalog_columns_root_ = c,
                                    !.first_trunk_id_ = 0, !.free_count_ = 0,
                                    !.next_table_id_ = 1,
                                    !.catalog_version_ = CATALOG_SCHEMA_VERSION])))))))

\* PageManager::load_metadata
load_metadata(s) ==
    Bind(s.disk[FIRST_PAGE_ID].meta, LAMBDA m :
       IF ~m.magic
       THEN save_metadata([s EXCEPT !.first_trunk_id_ = 0, !.free_count_ = 0,
                                    !.catalog_tables_root_ = 0, !.catalog_columns_root_ = 0,
                                    !.next_table_id_ = 1,
                                    !.catalog_version_ = CATALOG_SCHEMA_VERSION])
       ELSE
       Bind(IF m.version >= 2
            THEN [s EXCEPT !.catalog_version_ = m.version,
                           !.first_trunk_id_ = m.first_trunk_id,
                           !.free_count_ = m.free_count,
                           !.catalog_tables_root_ = m.catalog_tables_root,
                           !.catalog_columns_root_ = m.catalog_columns_root,
                           !.next_table_id_ = m.next_table_id]
            ELSE [s EXCEPT !.catalog_version_ = CATALOG_SCHEMA_VERSION,
                           !.first_trunk_id_ = m.first_trunk_id,
                           !.free_count_ = m.free_count,
                           !.catalog_tables_root_ = 0,
                           !.catalog_columns_root_ = 0,
                           !.next_table_id_ = 1], LAMBDA s1 :
       Bind(IF s1.catalog_tables_root_ = 0
            THEN Bind(page_count(s1.disk) + 1, LAMBDA t :
                    [s1 EXCEPT !.catalog_tables_root_ = t,
                               !.disk = write_page(s1.disk, t, Page_init(NewPageObject, "DATA", t))])
            ELSE s1, LAMBDA s2 :
       Bind(IF s2.catalog_columns_root_ = 0
            THEN Bind(page_count(s2.disk) + 1, LAMBDA c :
                    [s2 EXCEPT !.catalog_columns_root_ = c,
                               !.disk = write_page(s2.disk, c, Page_init(NewPageObject, "DATA", c))])
            ELSE s2, LAMBDA s3 :
       Bind(IF s3.next_table_id_ = 0 THEN [s3 EXCEPT !.next_table_id_ = 1] ELSE s3, LAMBDA s4 :
          IF s4.catalog_version_ # CATALOG_SCHEMA_VERSION
          THEN save_metadata([s4 EXCEPT !.catalog_version_ = CATALOG_SCHEMA_VERSION])
          ELSE s4)))))

\* TableHeap::Iterator{}: the end iterator
EndIterator == [heap_ |-> FALSE, page_ |-> INVALID_PAGE_ID, slot_ |-> 0,
                loc_ |-> [page_id |-> INVALID_PAGE_ID, slot |-> 0], payload_ |-> <<>>,
                end_ |-> TRUE]

\* TableCatalogEntry{}
NoEntry == [table_id |-> 0, root_page_id |-> 0, name |-> 0]

\* PageManager::Frame{}
EmptyFrame == [id |-> 0, page |-> NewPageObject, dirty |-> FALSE, pin_count |-> 0, in_lru |-> FALSE]

\* PageManager::PageManager(fm, capacity) on the file image d
PageManager_ctor(d, capacity) ==
    load_metadata(init_metadata_if_needed(
        [disk |-> d,
         frames |-> [i \in 1..capacity |-> EmptyFrame],
         page_table |-> [id \in TableDomain |-> NoFrame],
         lru |-> <<>>,
         first_trunk_id_ |-> 0, free_count_ |-> 0,
         catalog_tables_root_ |-> 0, catalog_columns_root_ |-> 0,
         next_table_id_ |-> 0, catalog_version_ |-> 0,
         root_page_id_ |-> 0, tail_page_id_ |-> 0,
         tables_loaded_ |-> FALSE, tables_cache_ |-> <<>>,
         sidecars |-> {},
         err |-> "OK", out |-> 0, ok |-> FALSE,
         loc |-> [page_id |-> 0, slot |-> 0], data |-> <<>>, rows |-> <<>>, it |-> EndIterator, entry |-> NoEntry]))

\* ------------------------------------------------------------ TableHeap
\* is_valid_page
is_valid_page(id) == id >= FIRST_PAGE_ID

\* the Page& a fetch returned: the page buffer of frame idx
SetPage(s, idx, p) == [s EXCEPT !.frames[idx].page = p]

\* TableHeap::find_tail; the tail is returned in s.out.  fuel bounds the walk
\* by the number of pages a chain can have.
RECURSIVE find_tail(_, _, _, _)
find_tail(s, start, current, fuel) ==
    IF fuel = 0 THEN Throw(s, "DIVERGES")
    ELSE IF ~is_valid_page(current) THEN [s EXCEPT !.out = start]
    ELSE Bind(fetch(s, current, TRUE), LAMBDA s1 :
            IF ~Ok(s1) THEN s1
            ELSE Bind(s1.frames[s1.out].page.next_page_id, LAMBDA next :
                 Bind(unpin(s1, current, FALSE), LAMBDA s2 :
                    IF ~Ok(s2) THEN s2
                    ELSE IF ~is_valid_page(next) THEN [s2 EXCEPT !.out = current]
                    ELSE find_tail(s2, start, next, fuel - 1))))

\* TableHeap::TableHeap(pm, root_page_id)
TableHeap_ctor(s, root_page_id) ==
    Bind([s EXCEPT !.root_page_id_ = root_page_id, !.tail_page_id_ = root_page_id], LAMBDA s0 :
       IF ~is_valid_page(root_page_id) THEN Throw(s0, "INVALID_ARGUMENT")
       ELSE Bind(fetch(s0, root_page_id, TRUE), LAMBDA s1 :
               IF ~Ok(s1) THEN s1
               ELSE IF s1.frames[s1.out].page.page_type # "DATA"
               THEN Bind(unpin(s1, root_page_id, FALSE), LAMBDA s2 :
                       IF ~Ok(s2) THEN s2 ELSE Throw(s2, "INVALID_PAGE_TYPE"))
               ELSE Bind(find_tail(s1, root_page_id, root_page_id, MaxPages + 1), LAMBDA s2 :
                       IF ~Ok(s2) THEN s2
                       ELSE unpin([s2 EXCEPT !.tail_page_id_ = s2.out], root_page_id, FALSE))))

\* TableHeap::append_new_page; the RowLocation is returned in s.loc
append_new_page(s, previous_tail, payload) ==
    Bind(new_page(s, "DATA"), LAMBDA s1 :
       IF ~Ok(s1) THEN s1
       ELSE
       Bind(s1.out, LAMBDA new_page_id :
       Bind(fetch(s1, new_page_id, TRUE), LAMBDA s2 :
          IF ~Ok(s2) THEN s2
          ELSE
          Bind(s2.out, LAMBDA idx :
          Bind([s2.frames[idx].page EXCEPT !.prev_page_id = previous_tail,
                                           !.next_page_id = INVALID_PAGE_ID], LAMBDA linked :
          Bind(Page_insert(linked, payload), LAMBDA r :
          Bind(SetPage(s2, idx, r.p), LAMBDA s3 :
             IF r.err # "OK" THEN Throw(s3, r.err)
             ELSE IF ~r.ok
             THEN Bind(unpin(s3, new_page_id, FALSE), LAMBDA s4 :
                  Bind(IF Ok(s4) THEN free_page(s4, new_page_id) ELSE s4, LAMBDA s5 :
                     IF ~Ok(s5) THEN s5 ELSE Throw(s5, "PAGE_FULL")))
             ELSE Bind(unpin(s3, new_page_id, TRUE), LAMBDA s4 :
                  Bind(IF Ok(s4) THEN fetch(s4, previous_tail, TRUE) ELSE s4, LAMBDA s5 :
                  Bind(IF Ok(s5)
                       THEN unpin([s5 EXCEPT !.frames[s5.out].page.next_page_id = new_page_id],
                                  previous_tail, TRUE)
                       ELSE s5, LAMBDA s6 :
                     IF ~Ok(s6) THEN s6
                     ELSE [s6 EXCEPT !.tail_page_id_ = new_page_id,
                                     !.loc = [page_id |-> new_page_id, slot |-> r.slot]]))))))))))

\* the loop of TableHeap::insert from page current on
RECURSIVE insert_from(_, _, _, _)
insert_from(s, current, payload, fuel) ==
    IF fuel = 0 THEN Throw(s, "DIVERGES")
    ELSE IF ~is_valid_page(current) THEN append_new_page(s, s.root_page_id_, payload)
    ELSE Bind(fetch(s, current, TRUE), LAMBDA s1 :
            IF ~Ok(s1) THEN s1
            ELSE
            Bind(s1.out, LAMBDA idx :
            Bind(Page_insert(s1.frames[idx].page, payload), LAMBDA r :
            Bind(SetPage(s1, idx, r.p), LAMBDA s2 :
               IF r.err # "OK" THEN Throw(s2, r.err)
               ELSE IF r.ok
               THEN Bind(unpin(s2, current, TRUE), LAMBDA s3 :
                       IF ~Ok(s3) THEN s3
                       ELSE [s3 EXCEPT !.tail_page_id_ = current,
                                       !.loc = [page_id |-> current, slot |-> r.slot]])
               ELSE Bind(r.p.next_page_id, LAMBDA next :
                    Bind(unpin(s2, current, FALSE), LAMBDA s3 :
                       IF ~Ok(s3) THEN s3
                       ELSE IF is_valid_page(next) THEN insert_from(s3, next, payload, fuel - 1)
                       ELSE append_new_page(s3, current, payload)))))))

\* TableHeap::insert; the RowLocation is returned in s.loc
TableHeap_insert(s, payload) ==
    IF Len(payload) > U16_MAX THEN Throw(s, "RECORD_TOO_LARGE")
    ELSE insert_from(s, s.tail_page_id_, payload, MaxPages + 1)

\* TableHeap::erase; the bool is returned in s.ok
TableHeap_erase(s, loc) ==
    IF ~is_valid_page(loc.page_id) THEN [s EXCEPT !.ok = FALSE]
    ELSE Bind(fetch(s, loc.page_id, TRUE), LAMBDA s1 :
            IF ~Ok(s1) THEN s1
            ELSE Bind(Page_erase(s1.frames[s1.out].page, loc.slot), LAMBDA r :
                 Bind(SetPage(s1, s1.out, r.p), LAMBDA s2 :
                    IF r.err # "OK" THEN Throw(s2, r.err)
                    ELSE [unpin(s2, loc.page_id, r.ok) EXCEPT !.ok = r.ok])))

\* TableHeap::read; the bool is returned in s.ok and the bytes in s.data
TableHeap_read(s, loc) ==
    IF ~is_valid_page(loc.page_id) THEN [s EXCEPT !.ok = FALSE]
    ELSE Bind(fetch(s, loc.page_id, TRUE), LAMBDA s1 :
            IF ~Ok(s1) THEN s1
            ELSE Bind(Page_read(s1.frames[s1.out].page, loc.slot), LAMBDA r :
                    IF r.err # "OK" THEN Throw(s1, r.err)
                    ELSE [unpin(s1, loc.page_id, FALSE) EXCEPT !.ok = r.ok, !.data = r.data]))

\* TableHeap::update with the erase of the old slot left out of the relocation
TableHeap_update_without_erase(s, loc, payload) ==
    Bind(fetch(s, loc.page_id, TRUE), LAMBDA s1 :
    Bind(Page_update(s1.frames[s1.out].page, loc.slot, payload), LAMBDA r :
    Bind(unpin(SetPage(s1, s1.out, r.p), loc.page_id, r.ok), LAMBDA s3 :
       IF ~Ok(s1) THEN s1
       ELSE IF r.err # "OK" THEN Throw(SetPage(s1, s1.out, r.p), r.err)
       ELSE IF ~Ok(s3) THEN s3
       ELSE IF r.ok THEN [s3 EXCEPT !.loc = loc]
       ELSE TableHeap_insert(s3, payload))))

\* TableHeap::update; the RowLocation is returned in s.loc
TableHeap_update(s, loc, payload) ==
    IF Len(payload) > U16_MAX THEN Throw(s, "RECORD_TOO_LARGE")
    ELSE IF ~is_valid_page(loc.page_id) THEN Throw(s, "RECORD_NOT_FOUND")
    ELSE Bind(fetch(s, loc.page_id, TRUE), LAMBDA s1 :
            IF ~Ok(s1) THEN s1
            ELSE
            Bind(Page_update(s1.frames[s1.out].page, loc.slot, payload), LAMBDA r :
            Bind(SetPage(s1, s1.out, r.p), LAMBDA s2 :
               IF r.err # "OK" THEN Throw(s2, r.err)
               ELSE
               Bind(unpin(s2, loc.page_id, r.ok), LAMBDA s3 :
                  IF ~Ok(s3) THEN s3
                  ELSE IF r.ok THEN [s3 EXCEPT !.loc = loc]
                  ELSE Bind(TableHeap_erase(s3, loc), LAMBDA s4 :
                          IF ~Ok(s4) THEN s4
                          ELSE IF ~s4.ok THEN Throw(s4, "RECORD_NOT_FOUND")
                          ELSE TableHeap_insert(s4, payload))))))

\* a truncate loop that leaves the pages after the root allocated
truncate_without_free(s, current, fuel) ==
    [s EXCEPT !.tail_page_id_ = s.root_page_id_]

\* the loop of TableHeap::truncate that frees the pages after the root
RECURSIVE truncate_from(_, _, _)
truncate_from(s, current, fuel) ==
    IF fuel = 0 THEN Throw(s, "DIVERGES")
    ELSE IF ~is_valid_page(current) THEN [s EXCEPT !.tail_page_id_ = s.root_page_id_]
    ELSE Bind(fetch(s, current, TRUE), LAMBDA s1 :
            IF ~Ok(s1) THEN s1
            ELSE Bind(s1.frames[s1.out].page.next_page_id, LAMBDA nxt :
                 Bind(unpin(s1, current, FALSE), LAMBDA s2 :
                 Bind(IF Ok(s2) THEN free_page(s2, current) ELSE s2, LAMBDA s3 :
                    IF ~Ok(s3) THEN s3 ELSE truncate_from(s3, nxt, fuel - 1)))))

\* TableHeap::truncate without the final tail_page_id_ = root_page_id_
TableHeap_truncate_keeping_tail(s) ==
    Bind(fetch(s, s.root_page_id_, TRUE), LAMBDA s1 :
       IF ~Ok(s1) THEN s1
       ELSE
       Bind(s1.frames[s1.out].page, LAMBDA root :
       Bind([root EXCEPT !.next_page_id = INVALID_PAGE_ID,
                         !.prev_page_id = INVALID_PAGE_ID,
                         !.record_count = 0, !.slot_count = 0,
                         !.free_space_offset = PAGE_HEADER_SIZE,
                         !.slots = <<>>, !.tnext = 0, !.tleaves = <<>>,
                         !.meta = ZeroMeta], LAMBDA cleared :
       Bind(unpin(SetPage(s1, s1.out, cleared), s.root_page_id_, TRUE), LAMBDA s2 :
          IF ~Ok(s2) THEN s2
          ELSE [truncate_from(s2, root.next_page_id, MaxPages + 1)
                   EXCEPT !.tail_page_id_ = s.tail_page_id_]))))

\* TableHeap::truncate
TableHeap_truncate(s) ==
    Bind(fetch(s, s.root_page_id_, TRUE), LAMBDA s1 :
       IF ~Ok(s1) THEN s1
       ELSE
       Bind(s1.frames[s1.out].page, LAMBDA root :
       Bind(root.next_page_id, LAMBDA next :
       Bind([root EXCEPT !.next_page_id = INVALID_PAGE_ID,
                         !.prev_page_id = INVALID_PAGE_ID,
                         !.record_count = 0, !.slot_count = 0,
                         !.free_space_offset = PAGE_HEADER_SIZE,
                         !.slots = <<>>, !.tnext = 0, !.tleaves = <<>>,
                         !.meta = ZeroMeta], LAMBDA cleared :
       Bind(unpin(SetPage(s1, s1.out, cleared), s.root_page_id_, TRUE), LAMBDA s2 :
          IF ~Ok(s2) THEN s2 ELSE truncate_from(s2, next, MaxPages + 1))))))

\* the inner loop of Iterator::advance: the first slot from slot_ on that
\* Page::read returns, or slot_count if there is none
RECURSIVE next_readable(_, _)
next_readable(p, slot) ==
    IF slot >= p.slot_count THEN p.slot_count
    ELSE IF Page_read(p, slot).ok THEN slot
    ELSE next_readable(p, slot + 1)

\* TableHeap::Iterator::advance; the iterator is kept in s.it
RECURSIVE advance_from(_, _, _, _)
advance_from(s, page_, slot_, fuel) ==
    IF fuel = 0 THEN Throw(s, "DIVERGES")
    ELSE IF ~is_valid_page(page_) THEN [s EXCEPT !.it = EndIterator]
    ELSE Bind(fetch(s, page_, TRUE), LAMBDA s1 :
            IF ~Ok(s1) THEN s1
            ELSE
            Bind(s1.frames[s1.out].page, LAMBDA page :
            Bind(next_readable(page, slot_), LAMBDA j :
               IF slot_ < page.slot_count /\ Page_read(page, slot_).err # "OK"
               THEN Throw(s1, Page_read(page, slot_).err)
               ELSE IF j < page.slot_count
               THEN [unpin(s1, page_, FALSE) EXCEPT
                       !.it = [heap_ |-> TRUE, page_ |-> page_, slot_ |-> j + 1,
                               loc_ |-> [page_id |-> page_, slot |-> j],
                               payload_ |-> Page_read(page, j).data, end_ |-> FALSE]]
               ELSE Bind(unpin(s1, page_, FALSE), LAMBDA s2 :
                       IF ~Ok(s2) THEN s2
                       ELSE advance_from(s2, page.next_page_id, 0, fuel - 1)))))

advance(s) ==
    IF ~s.it.heap_ THEN [s EXCEPT !.it.end_ = TRUE]
    ELSE advance_from(s, s.it.page_, s.it.slot_, MaxPages + 1)

\* TableHeap::begin
TableHeap_begin(s) ==
    advance([s EXCEPT !.it = [heap_ |-> TRUE, page_ |-> s.root_page_id_, slot_ |-> 0,
                              loc_ |-> [page_id |-> INVALID_PAGE_ID, slot |-> 0],
                              payload_ |-> <<>>, end_ |-> FALSE]])

\* the rest of TableHeap::scan from the iterator in s.it; fn collects what
\* it is handed in s.rows
RECURSIVE scan_from(_, _)
scan_from(s, fuel) ==
    IF fuel = 0 THEN Throw(s, "DIVERGES")
    ELSE IF ~Ok(s) \/ s.it.end_ THEN s
    ELSE scan_from(advance([s EXCEPT !.rows = Append(@, [loc |-> s.it.loc_,
                                                         data |-> s.it.payload_])]),
                   fuel - 1)

\* no chain holds more rows than this
MaxScan == MaxPages * ((PAGE_SIZE - PAGE_HEADER_SIZE) \div SLOT_SIZE) + 1

\* TableHeap::scan
TableHeap_scan(s) == scan_from(TableHeap_begin([s EXCEPT !.rows = <<>>]), MaxScan)

\* ------------------------------------------------------------ CatalogManager
\* TableCatalogEntry::serialize: table_id, root_page_id, name (create_sql is
\* not read by the catalog code and is left out)
serialize_table(e) == <<e.table_id, e.root_page_id, e.name>>

\* TableCatalogEntry::deserialize
deserialize_table(payload) ==
    [table_id |-> payload[1], root_page_id |-> payload[2], name |-> payload[3]]

\* ColumnCatalogEntry::serialize: table_id, column_id, ordinal_position (the
\* column definition is not read by the catalog code and is left out)
serialize_column(e) == <<e.table_id, e.column_id, e.ordinal_position>>

\* ColumnCatalogEntry::deserialize
deserialize_column(payload) ==
    [table_id |-> payload[1], column_id |-> payload[2], ordinal_position |-> payload[3]]

\* the payloads for_each_slot hands to fn: every readable, non-empty slot
RECURSIVE slot_payloads(_, _)
slot_payloads(p, slot) ==
    IF slot >= p.slot_count THEN <<>>
    ELSE Bind(Page_read(p, slot), LAMBDA r :
            (IF r.ok /\ r.data # <<>> THEN <<r.data>> ELSE <<>>) \o slot_payloads(p, slot + 1))

\* for_each_slot: the payloads are returned in s.rows
for_each_slot(s, page_id) ==
    Bind(fetch(s, page_id, TRUE), LAMBDA s1 :
       IF ~Ok(s1) THEN s1
       ELSE Bind(s1.frames[s1.out].page, LAMBDA page :
            Bind(unpin(s1, page_id, FALSE), LAMBDA s2 :
               IF page.slot_count > 0 /\ Page_read(page, 0).err # "OK"
               THEN IF Ok(s2) THEN Throw(s2, Page_read(page, 0).err) ELSE s2
               ELSE [s2 EXCEPT !.rows = slot_payloads(page, 0)])))

\* refresh_cached_page: a DBException is swallowed
refresh_cached_page(s, page_id) ==
    Bind(fetch(s, page_id, TRUE), LAMBDA s1 :
    Bind(IF Ok(s1) THEN unpin(s1, page_id, FALSE) ELSE s1, LAMBDA s2 :
       [s2 EXCEPT !.err = "OK"]))

\* CatalogManager::ensure_catalog_pages; tables_root_ and columns_root_ are
\* the PageManager's roots
ensure_catalog_pages(s) ==
    Bind(IF s.catalog_tables_root_ < FIRST_PAGE_ID
         THEN Bind(new_page(s, "DATA"), LAMBDA a :
                 IF ~Ok(a) THEN a
                 ELSE unpin(save_metadata([a EXCEPT !.catalog_tables_root_ = a.out]),
                            a.out, FALSE))
         ELSE s, LAMBDA s1 :
       IF ~Ok(s1) THEN s1
       ELSE IF s1.catalog_columns_root_ < FIRST_PAGE_ID
       THEN Bind(new_page(s1, "DATA"), LAMBDA a :
               IF ~Ok(a) THEN a
               ELSE unpin(save_metadata([a EXCEPT !.catalog_columns_root_ = a.out]),
                          a.out, FALSE))
       ELSE s1)

\* CatalogManager::load_tables_cache
load_tables_cache(s) ==
    IF s.tables_loaded_ THEN s
    ELSE Bind(for_each_slot([s EXCEPT !.tables_cache_ = <<>>], s.catalog_tables_root_), LAMBDA s1 :
            IF ~Ok(s1) THEN s1
            ELSE [s1 EXCEPT !.tables_cache_ = [i \in 1..Len(s1.rows) |-> deserialize_table(s1.rows[i])],
                            !.tables_loaded_ = TRUE])

\* std::sort by the key (table_id, ordinal_position); the keys of the
\* entries of a catalog page are distinct
ColumnBefore(a, b) ==
    IF a.table_id = b.table_id THEN a.ordinal_position < b.ordinal_position
    ELSE a.table_id < b.table_id

RECURSIVE sort_columns(_)
sort_columns(es) ==
    IF es = <<>> THEN <<>>
    ELSE Bind(CHOOSE i \in 1..Len(es) : \A j \in 1..Len(es) : ~ColumnBefore(es[j], es[i]), LAMBDA i :
            <<es[i]>> \o sort_columns(SubSeq(es, 1, i - 1) \o SubSeq(es, i + 1, Len(es))))

\* CatalogManager::read_all_columns(); the entries are returned in s.rows
read_all_columns(s) ==
    Bind(for_each_slot(s, s.catalog_columns_root_), LAMBDA s1 :
       IF ~Ok(s1) THEN s1
       ELSE [s1 EXCEPT !.rows = sort_columns([i \in 1..Len(s1.rows) |-> deserialize_column(s1.rows[i])])])

\* CatalogManager::get_columns(table_id) = read_all_columns(table_id)
get_columns(s, table_id) ==
    Bind(read_all_columns(s), LAMBDA s1 :
       IF ~Ok(s1) THEN s1
       ELSE [s1 EXCEPT !.rows = SelectSeq(s1.rows, LAMBDA e : e.table_id = table_id)])

\* CatalogManager::list_tables = read_all_tables; the entries are returned in s.rows
list_tables(s) ==
    Bind(load_tables_cache(s), LAMBDA s1 :
       IF ~Ok(s1) THEN s1 ELSE [s1 EXCEPT !.rows = s1.tables_cache_])

\* CatalogManager::table_exists
table_exists(s, name) == \E i \in 1..Len(s.tables_cache_) : s.tables_cache_[i].name = name

\* persist_table_entry and persist_column_entry on the catalog page page_id:
\* when the entry does not fit, the page is unpinned, PAGE_FULL is thrown
\* inside the try block, and the catch block unpins once more before it
\* rethrows
persist_entry(s, page_id, data) ==
    Bind(fetch(s, page_id, TRUE), LAMBDA s1 :
       IF ~Ok(s1) THEN s1
       ELSE Bind(Page_insert(s1.frames[s1.out].page, data), LAMBDA r :
            Bind(SetPage(s1, s1.out, r.p), LAMBDA s2 :
               IF r.err # "OK"
               THEN Bind(unpin(s2, page_id, FALSE), LAMBDA c :
                       IF Ok(c) THEN Throw(c, r.err) ELSE c)
               ELSE IF ~r.ok
               THEN Bind(unpin(s2, page_id, FALSE), LAMBDA u :
                    Bind(unpin([u EXCEPT !.err = "OK"], page_id, FALSE), LAMBDA c :
                       IF ~Ok(c) THEN c
                       ELSE IF Ok(u) THEN Throw(c, "PAGE_FULL") ELSE Throw(c, u.err)))
               ELSE Bind(unpin(s2, page_id, TRUE), LAMBDA u :
                       IF Ok(u) THEN u
                       ELSE Bind(unpin([u EXCEPT !.err = "OK"], page_id, FALSE), LAMBDA c :
                               IF Ok(c) THEN Throw(c, u.err) ELSE c)))))

\* CatalogManager::persist_table_entry
persist_table_entry(s, entry) == persist_entry(s, s.catalog_tables_root_, serialize_table(entry))

\* CatalogManager::persist_column_entry
persist_column_entry(s, entry) == persist_entry(s, s.catalog_columns_root_, serialize_column(entry))

\* the page image rewrite_tables_page and rewrite_columns_page build; ok is
\* FALSE when an entry does not fit
RECURSIVE rebuilt_page(_, _)
rebuilt_page(p, payloads) ==
    IF payloads = <<>> THEN PageResult(p, TRUE, 0, <<>>, "OK")
    ELSE Bind(Page_insert(p, Head(payloads)), LAMBDA r :
            IF r.err # "OK" \/ ~r.ok THEN r ELSE rebuilt_page(r.p, Tail(payloads)))

rewrite_page(s, page_id, payloads) ==
    Bind(rebuilt_page(Page_init(NewPageObject, "DATA", page_id), payloads), LAMBDA r :
       IF r.err # "OK" THEN Throw(s, r.err)
       ELSE IF ~r.ok THEN Throw(s, "PAGE_FULL")
       ELSE refresh_cached_page([s EXCEPT !.disk = write_page(s.disk, page_id, r.p)], page_id))

\* CatalogManager::rewrite_tables_page
rewrite_tables_page(s, entries) ==
    rewrite_page(s, s.catalog_tables_root_, [i \in 1..Len(entries) |-> serialize_table(entries[i])])

\* CatalogManager::rewrite_columns_page
rewrite_columns_page(s, entries) ==
    rewrite_page(s, s.catalog_columns_root_, [i \in 1..Len(entries) |-> serialize_column(entries[i])])

\* the loop of create_table that persists the column entries from column i on
RECURSIVE persist_columns(_, _, _, _)
persist_columns(s, new_id, i, n) ==
    IF ~Ok(s) \/ i >= n THEN s
    ELSE persist_columns(persist_column_entry(s, [table_id |-> new_id, column_id |-> i + 1,
                                                  ordinal_position |-> i]),
                         new_id, i + 1, n)

\* CatalogManager::create_table for a table of n columns; the new entry is
\* returned in s.entry
CatalogManager_create_table(s, name, n, root_page_id) ==
    Bind(ensure_catalog_pages(s), LAMBDA s1 :
    Bind(IF Ok(s1) THEN load_tables_cache(s1) ELSE s1, LAMBDA s2 :
       IF ~Ok(s2) THEN s2
       ELSE IF table_exists(s2, name) THEN Throw(s2, "TABLE_EXISTS")
       ELSE
       Bind(s2.next_table_id_, LAMBDA new_id :
       Bind(save_metadata([s2 EXCEPT !.next_table_id_ = new_id + 1]), LAMBDA s3 :
       Bind([table_id |-> new_id, root_page_id |-> root_page_id, name |-> name], LAMBDA table_entry :
       Bind(persist_table_entry(s3, table_entry), LAMBDA s4 :
          IF ~Ok(s4) THEN s4
          ELSE persist_columns(
                 [s4 EXCEPT !.tables_cache_ = IF s4.tables_loaded_ THEN Append(@, table_entry) ELSE @,
                            !.entry = table_entry],
                 new_id, 0, n)))))))

\* CatalogManager::drop_table; the bool is returned in s.ok and the removed
\* entry in s.entry
CatalogManager_drop_table(s, name) ==
    Bind(load_tables_cache(s), LAMBDA s1 :
       IF ~Ok(s1) THEN s1
       ELSE IF ~table_exists(s1, name) THEN [s1 EXCEPT !.ok = FALSE]
       ELSE
       Bind(CHOOSE i \in 1..Len(s1.tables_cache_) :
               /\ s1.tables_cache_[i].name = name
               /\ \A j \in 1..(i - 1) : s1.tables_cache_[j].name # name, LAMBDA i :
       Bind(s1.tables_cache_[i], LAMBDA removed :
       Bind([s1 EXCEPT !.tables_cache_ = SubSeq(@, 1, i - 1) \o SubSeq(@, i + 1, Len(@))], LAMBDA s2 :
       Bind(rewrite_tables_page(s2, s2.tables_cache_), LAMBDA s3 :
       Bind(IF Ok(s3) THEN read_all_columns([s3 EXCEPT !.tables_loaded_ = TRUE]) ELSE s3, LAMBDA s4 :
       Bind(IF Ok(s4)
            THEN rewrite_columns_page(s4, SelectSeq(s4.rows, LAMBDA e : e.table_id # removed.table_id))
            ELSE s4, LAMBDA s5 :
          IF ~Ok(s5) THEN s5 ELSE [s5 EXCEPT !.ok = TRUE, !.entry = removed])))))))

\* ------------------------------------------------------------ DDLExecutor
\* DDLExecutor::create_from_ast for a validated statement; sidecar_ok tells
\* whether the table's sidecar file can be created.  The root page taken
\* from new_page is returned in s.out.
create_from_ast(s, name, n, sidecar_ok) ==
    Bind(new_page(s, "DATA"), LAMBDA s1 :
       IF ~Ok(s1) THEN [s1 EXCEPT !.out = 0]
       ELSE
       Bind(s1.out, LAMBDA root_page_id :
       Bind(unpin(s1, root_page_id, FALSE), LAMBDA s2 :
       Bind(IF Ok(s2) THEN CatalogManager_create_table(s2, name, n, root_page_id) ELSE s2, LAMBDA s3 :
          IF ~Ok(s3) THEN [s3 EXCEPT !.out = root_page_id]
          ELSE IF sidecar_ok
          THEN [s3 EXCEPT !.sidecars = @ \cup {s3.entry.table_id}, !.out = root_page_id]
          ELSE Bind(CatalogManager_drop_table(s3, name), LAMBDA s4 :
               Bind(IF Ok(s4) THEN free_page(s4, s3.entry.root_page_id) ELSE s4, LAMBDA s5 :
                  [(IF Ok(s5) THEN Throw(s5, "WRITE_ERROR") ELSE s5) EXCEPT !.out = root_page_id]))))))

\* CatalogManager::get_table(name); the entry is returned in s.entry, s.ok
\* tells whether there is one
get_table(s, name) ==
    Bind(load_tables_cache(s), LAMBDA s1 :
       IF ~Ok(s1) THEN s1
       ELSE IF ~table_exists(s1, name) THEN [s1 EXCEPT !.ok = FALSE]
       ELSE [s1 EXCEPT !.ok = TRUE,
                       !.entry = s1.tables_cache_[CHOOSE i \in 1..Len(s1.tables_cache_) :
                                     /\ s1.tables_cache_[i].name = name
                                     /\ \A j \in 1..(i - 1) : s1.tables_cache_[j].name # name]])

\* DDLExecutor::drop_from_ast without IF EXISTS; the bool is returned in s.ok
drop_from_ast(s, name) ==
    Bind(get_table(s, name), LAMBDA s1 :
       IF ~Ok(s1) THEN s1
       ELSE IF ~s1.ok THEN Throw(s1, "TABLE_NOT_FOUND")
       ELSE
       Bind(s1.entry, LAMBDA table_entry :
       Bind(CatalogManager_drop_table(s1, name), LAMBDA s2 :
          IF ~Ok(s2) THEN s2
          ELSE IF ~s2.ok THEN Throw(s2, "TABLE_NOT_FOUND")
          ELSE Bind(free_page(s2, table_entry.root_page_id), LAMBDA s3 :
                  IF ~Ok(s3) THEN s3
                  ELSE [s3 EXCEPT !.sidecars = @ \ {table_entry.table_id},
                                  !.ok = TRUE, !.entry = table_entry]))))

\* ------------------------------------------------------------ state <-> record
\* the program state as the record the operators work on
Cur == [disk |-> disk, frames |-> frames, page_table |-> page_table, lru |-> lru,
        first_trunk_id_ |-> first_trunk_id_, free_count_ |-> free_count_,
        catalog_tables_root_ |-> catalog_tables_root_,
        catalog_columns_root_ |-> catalog_columns_root_,
        next_table_id_ |-> next_table_id_, catalog_version_ |-> CATALOG_SCHEMA_VERSION,
        root_page_id_ |-> root_page_id_, tail_page_id_ |-> tail_page_id_,
        tables_loaded_ |-> tables_loaded_, tables_cache_ |-> tables_cache_,
        sidecars |-> sidecars,
        err |-> "OK", out |-> 0, ok |-> FALSE,
        loc |-> [page_id |-> 0, slot |-> 0], data |-> <<>>, rows |-> <<>>,
        it |-> EndIterator, entry |-> NoEntry]

\* the state a call leaves behind; the bounds cut runs that outgrow them
Becomes(r) ==
    /\ hist.steps < MaxSteps
    /\ Len(r.disk) <= MaxPages
    /\ Len(r.lru) <= MaxLru
    /\ disk' = r.disk
    /\ frames' = r.frames
    /\ page_table' = r.page_table
    /\ lru' = r.lru
    /\ first_trunk_id_' = r.first_trunk_id_
    /\ free_count_' = r.free_count_
    /\ catalog_tables_root_' = r.catalog_tables_root_
    /\ catalog_columns_root_' = r.catalog_columns_root_
    /\ next_table_id_' = r.next_table_id_
    /\ root_page_id_' = r.root_page_id_
    /\ tail_page_id_' = r.tail_page_id_
    /\ tables_loaded_' = r.tables_loaded_
    /\ tables_cache_' = r.tables_cache_
    /\ sidecars' = r.sidecars
    /\ storage_' = storage_

\* the record of a call: name, page id argument, StatusCode, returned id
Call(name, id, r) == [name |-> name, id |-> id, err |-> r.err, out |-> r.out,
                      ok |-> r.ok, loc |-> r.loc, data |-> r.data, rows |-> r.rows,
                      entry |-> r.entry]

\* the caller's bookkeeping: calls made, page ids it holds and has freed, the
\* rows it stored in the order they were last placed (rows) and in the order
\* they were first inserted (first), the RowLocations it was handed, and
\* whether a heap call before the last one raised an error; for the buffer
\* pool: the page ids in the order of their last unpin-to-zero or non-pinning
\* fetch (used, latest first), the image each page had when it was last
\* released with dirty = true (image, a sequence of [id, page]), and the
\* pages written since (pending); for the DML statements: the column
\* definitions of the CREATE TABLE statement (schema)
NoHist == [steps |-> 0, allocated |-> {}, freed |-> {}, rows |-> <<>>, first |-> <<>>,
           given |-> {}, failed |-> FALSE,
           used |-> <<>>, image |-> <<>>, pending |-> {}, schema |-> <<>>]

\* one more call made
Tick(h) == [h EXCEPT !.steps = @ + 1]

\* the initial state: the state the constructors leave
Starts(r) ==
    /\ disk = r.disk
    /\ frames = r.frames
    /\ page_table = r.page_table
    /\ lru = r.lru
    /\ first_trunk_id_ = r.first_trunk_id_
    /\ free_count_ = r.free_count_
    /\ catalog_tables_root_ = r.catalog_tables_root_
    /\ catalog_columns_root_ = r.catalog_columns_root_
    /\ next_table_id_ = r.next_table_id_
    /\ root_page_id_ = r.root_page_id_
    /\ tail_page_id_ = r.tail_page_id_
    /\ tables_loaded_ = r.tables_loaded_
    /\ tables_cache_ = r.tables_cache_
    /\ sidecars = r.sidecars
    /\ storage_ = NewStorage

\* ------------------------------------------------------------ buffer pool calls
\* pages the caller may name: the reserved ones and those new_page gave it
Reserved == {FIRST_PAGE_ID, catalog_tables_root_, catalog_columns_root_}

\* a new, empty database file opened by a PageManager
InitPM ==
    \E r \in {PageManager_ctor(<<>>, Capacity)} :
       /\ Starts(r)
       /\ op = Call("open", 0, r)
       /\ hist = NoHist

\* pm.new_page(PageType::DATA)
PMNewPage ==
    \E r \in {new_page(Cur, "DATA")} :
       /\ Becomes(r)
       /\ op' = Call("new_page", 0, r)
       /\ hist' = IF Ok(r) THEN [Tick(hist) EXCEPT !.allocated = @ \cup {r.out},
                                             !.freed = @ \ {r.out}]
                  ELSE Tick(hist)

\* pm.fetch(id, pin) of a page the caller owns, or of the page past the end of the file
PMFetch ==
    \E id \in PageIds, pin \in BOOLEAN :
       /\ id \in hist.allocated \cup {page_count(disk) + 1}
       /\ page_table[id] # NoFrame => frames[page_table[id]].pin_count < MaxPin
       /\ \E r \in {fetch(Cur, id, pin)} :
             /\ Becomes(r)
             /\ op' = Call(IF pin THEN "fetch_pin" ELSE "fetch", id, r)
             /\ hist' = Tick(hist)

\* pm.unpin(id, dirty)
PMUnpin ==
    \E id \in hist.allocated, dirty \in BOOLEAN :
       /\ \E r \in {unpin(Cur, id, dirty)} :
             /\ Becomes(r)
             /\ op' = Call("unpin", id, r)
             /\ hist' = Tick(hist)

\* pm.free_page(id) of a page new_page gave out
PMFreePage ==
    \E id \in hist.allocated :
       \E r \in {free_page(Cur, id)} :
          /\ Becomes(r)
          /\ op' = Call("free_page", id, r)
          /\ hist' = IF Ok(r) THEN [Tick(hist) EXCEPT !.allocated = @ \ {id},
                                                !.freed = @ \cup {id}]
                     ELSE Tick(hist)

\* pm.flush(id)
PMFlush ==
    \E id \in hist.allocated \cup hist.freed :
       \E r \in {flush(Cur, id)} :
          /\ Becomes(r)
          /\ op' = Call("flush", id, r)
          /\ hist' = Tick(hist)

\* pm.flush_all()
PMFlushAll ==
    \E r \in {flush_all(Cur)} :
       /\ Becomes(r)
       /\ op' = Call("flush_all", 0, r)
       /\ hist' = Tick(hist)

\* ~PageManager (flush_all, best effort), close, and a new PageManager on the file
PMReopen ==
    \E r \in {PageManager_ctor(flush_all(Cur).disk, Capacity)} :
       /\ Becomes(r)
       /\ op' = Call("open", 0, r)
       /\ hist' = Tick(hist)

NextPM == PMNewPage \/ PMFetch \/ PMUnpin \/ PMFreePage \/ PMFlush \/ PMFlushAll \/ PMReopen

SpecPM == InitPM /\ [][NextPM]_vars

\* ------------------------------------------------------------ table heap calls
\* payloads the caller stores: a short one, a longer one, and one that fits no page
Short == <<1, 1, 1>>
Long == <<2, 2, 2, 2>>
Oversize == [i \in 1..(PAGE_SIZE - PAGE_HEADER_SIZE - SLOT_SIZE - 1) |-> 0]
Payloads == {Short, Long, Oversize}

HeapCalls == {"insert", "update", "erase", "read", "truncate", "scan"}

Row(loc, data) == [loc |-> loc, data |-> data]
Without(rows, loc) == SelectSeq(rows, LAMBDA r : r.loc # loc)
Replaced(rows, loc, row) == [i \in 1..Len(rows) |-> IF rows[i].loc = loc THEN row ELSE rows[i]]
Locs(rows) == {rows[i].loc : i \in 1..Len(rows)}

\* a new database file, a root page as DDLExecutor::create_from_ast makes it
\* (new_page, unpin), and a TableHeap on it
InitHeap ==
    Bind(new_page(PageManager_ctor(<<>>, Capacity), "DATA"), LAMBDA s1 :
    Bind(TableHeap_ctor(unpin(s1, s1.out, FALSE), s1.out), LAMBDA r :
       /\ Starts(r)
       /\ op = Call("open", 0, r)
       /\ hist = NoHist))

\* one more call made; failed records that a call before it raised an error
Failed(h, r) == [Tick(h) EXCEPT !.failed = @ \/ op.err # "OK"]

\* heap.insert(payload)
HeapInsert ==
    /\ hist.steps < MaxHeapSteps
    /\ \E payload \in Payloads :
       \E r \in {TableHeap_insert(Cur, payload)} :
          /\ Becomes(r)
          /\ op' = [Call("insert", 0, r) EXCEPT !.data = payload]
          /\ hist' = IF Ok(r)
                     THEN [Failed(hist, r) EXCEPT !.rows = Append(@, Row(r.loc, payload)),
                                                  !.first = Append(@, Row(r.loc, payload)),
                                                  !.given = @ \cup {r.loc}]
                     ELSE Failed(hist, r)

\* heap.update(loc, payload) with a location the heap handed out
HeapUpdate ==
    /\ hist.steps < MaxHeapSteps
    /\ \E loc \in hist.given, payload \in Payloads :
       \E r \in {TableHeap_update(Cur, loc, payload)} :
          /\ Becomes(r)
          /\ op' = [Call("update", loc.page_id, r) EXCEPT !.out = loc.slot, !.data = payload]
          /\ hist' = IF Ok(r)
                     THEN [Failed(hist, r) EXCEPT
                             !.rows = IF r.loc = loc THEN Replaced(@, loc, Row(loc, payload))
                                      ELSE Append(Without(@, loc), Row(r.loc, payload)),
                             !.first = Replaced(@, loc, Row(r.loc, payload)),
                             !.given = @ \cup {r.loc}]
                     ELSE Failed(hist, r)

\* heap.erase(loc)
HeapErase ==
    /\ hist.steps < MaxHeapSteps
    /\ \E loc \in hist.given :
       \E r \in {TableHeap_erase(Cur, loc)} :
          /\ Becomes(r)
          /\ op' = [Call("erase", loc.page_id, r) EXCEPT !.out = loc.slot]
          /\ hist' = IF Ok(r) /\ r.ok
                     THEN [Failed(hist, r) EXCEPT !.rows = Without(@, loc),
                                                  !.first = Without(@, loc)]
                     ELSE Failed(hist, r)

\* heap.read(loc, out)
HeapRead ==
    /\ hist.steps < MaxHeapSteps
    /\ \E loc \in hist.given :
       \E r \in {TableHeap_read(Cur, loc)} :
          /\ Becomes(r)
          /\ op' = [Call("read", loc.page_id, r) EXCEPT !.out = loc.slot]
          /\ hist' = Failed(hist, r)

\* heap.truncate()
HeapTruncate ==
    /\ hist.steps < MaxHeapSteps
    /\ \E r \in {TableHeap_truncate(Cur)} :
       /\ Becomes(r)
       /\ op' = Call("truncate", 0, r)
       /\ hist' = IF Ok(r) THEN [Failed(hist, r) EXCEPT !.rows = <<>>, !.first = <<>>]
                  ELSE Failed(hist, r)

\* heap.scan(fn) with an fn that collects what it is handed
HeapScan ==
    /\ hist.steps < MaxHeapSteps
    /\ \E r \in {TableHeap_scan(Cur)} :
       /\ Becomes(r)
       /\ op' = Call("scan", 0, r)
       /\ hist' = Failed(hist, r)

NextHeap == HeapInsert \/ HeapUpdate \/ HeapErase \/ HeapRead \/ HeapTruncate \/ HeapScan

SpecHeap == InitHeap /\ [][NextHeap]_vars

\* ------------------------------------------------------------ table heap claims
SamePins == \A f \in DOMAIN frames : frames'[f].pin_count = frames[f].pin_count

\* C3: a TableHeap operation that returns normally leaves every frame's
\* pin_count as it was before the operation.
C3_NoPinLeakOnReturn ==
    [][(op'.name \in HeapCalls /\ op'.err = "OK") => SamePins]_vars

\* C4: a TableHeap operation that exits with an exception leaves every
\* frame's pin_count as it was before the call.
C4_NoPinLeakOnThrow ==
    [][(op'.name \in HeapCalls /\ op'.err # "OK") => SamePins]_vars

\* C5: after any sequence of insert, erase and update calls a scan yields
\* each live row exactly once, with its current location and payload, and
\* no erased or superseded row.
C5_ScanYieldsLiveRows ==
    (op.name = "scan" /\ ~hist.failed) =>
       /\ op.err = "OK"
       /\ Len(op.rows) = Len(hist.rows)
       /\ {op.rows[i] : i \in 1..Len(op.rows)} = {hist.rows[i] : i \in 1..Len(hist.rows)}

Names == 1..MaxNames

\* the program state after the step, as the record the operators work on
Nxt == [disk |-> disk', frames |-> frames', page_table |-> page_table', lru |-> lru',
        first_trunk_id_ |-> first_trunk_id_', free_count_ |-> free_count_',
        catalog_tables_root_ |-> catalog_tables_root_',
        catalog_columns_root_ |-> catalog_columns_root_',
        next_table_id_ |-> next_table_id_', catalog_version_ |-> CATALOG_SCHEMA_VERSION,
        root_page_id_ |-> root_page_id_', tail_page_id_ |-> tail_page_id_',
        tables_loaded_ |-> tables_loaded_', tables_cache_ |-> tables_cache_',
        sidecars |-> sidecars',
        err |-> "OK", out |-> 0, ok |-> FALSE,
        loc |-> [page_id |-> 0, slot |-> 0], data |-> <<>>, rows |-> <<>>,
        it |-> EndIterator, entry |-> NoEntry]

\* a new database file opened by a PageManager and a CatalogManager
InitDdl ==
    \E r \in {ensure_catalog_pages(PageManager_ctor(<<>>, DdlCapacity))} :
       /\ Starts(r)
       /\ op = Call("open", 0, r)
       /\ hist = NoHist

\* CREATE TABLE name (n columns); the sidecar file can be created or not
DdlCreateTable ==
    /\ hist.steps < MaxDdlSteps
    /\ \E name \in Names, n \in 1..MaxCols, sidecar_ok \in BOOLEAN :
       \E r \in {create_from_ast(Cur, name, n, sidecar_ok)} :
          /\ Becomes(r)
          /\ op' = Call("create_table", name, r)
          /\ hist' = IF Ok(r)
                     THEN [Tick(hist) EXCEPT !.given = @ \cup {r.entry.table_id},
                                             !.rows = Append(@, [entry |-> r.entry,
                                                                 columns |-> n])]
                     ELSE Tick(hist)

\* DROP TABLE name
DdlDropTable ==
    /\ hist.steps < MaxDdlSteps
    /\ \E name \in Names :
       \E r \in {drop_from_ast(Cur, name)} :
          /\ Becomes(r)
          /\ op' = Call("drop_table", name, r)
          /\ hist' = IF Ok(r) /\ r.ok
                     THEN [Tick(hist) EXCEPT !.rows = SelectSeq(@, LAMBDA t : t.entry.name # name)]
                     ELSE Tick(hist)

\* pm.flush_all() between statements
DdlFlushAll ==
    /\ hist.steps < MaxDdlSteps
    /\ \E r \in {flush_all(Cur)} :
          /\ Becomes(r)
          /\ op' = Call("flush_all", 0, r)
          /\ hist' = Tick(hist)

\* the CatalogManager and the PageManager are destroyed (flush_all, best
\* effort), the file is closed, and both are constructed again on the file;
\* the sidecar files stay where they are
DdlReopen ==
    /\ hist.steps < MaxDdlSteps
    /\ \E r \in {ensure_catalog_pages(PageManager_ctor(flush_all(Cur).disk, DdlCapacity))} :
          /\ Becomes([r EXCEPT !.sidecars = sidecars])
          /\ op' = Call("open", 0, r)
          /\ hist' = Tick(hist)

NextDdl == DdlCreateTable \/ DdlDropTable \/ DdlFlushAll \/ DdlReopen

SpecDdl == InitDdl /\ [][NextDdl]_vars

\* ------------------------------------------------------------ catalog claims
\* the table ids of the entries a catalog page shows through the buffer pool
PoolTableIds(s, page_id) ==
    Bind(for_each_slot(s, page_id), LAMBDA r :
       {r.rows[i][1] : i \in 1..Len(r.rows)})

\* C7: after drop_table(name) returned true, list_tables and get_table do
\* not return the table, get_columns of its id is empty, the catalog pages
\* seen through the buffer pool hold no entry of it, and all other tables
\* and their columns are returned unchanged.
C7_DroppedTableIsGone ==
    [][(op'.name = "drop_table" /\ op'.err = "OK" /\ op'.ok) =>
         Bind(op'.entry.table_id, LAMBDA id :
         Bind(list_tables(Cur).rows, LAMBDA before :
         Bind(list_tables(Nxt).rows, LAMBDA after :
            /\ after = SelectSeq(before, LAMBDA e : e.table_id # id)
            /\ ~get_table(Nxt, op'.id).ok
            /\ get_columns(Nxt, id).rows = <<>>
            /\ id \notin PoolTableIds(Nxt, catalog_tables_root_')
            /\ id \notin PoolTableIds(Nxt, catalog_columns_root_')
            /\ \A t \in 1..next_table_id_ :
                  t # id => get_columns(Nxt, t).rows = get_columns(Cur, t).rows)))]_vars

\* the ids on the freelist on disk: the trunks reachable from trunk id and
\* their leaves
RECURSIVE FreeIds(_, _, _)
FreeIds(d, id, fuel) ==
    IF id = 0 \/ fuel = 0 \/ ~can_read_page(d, id) THEN {}
    ELSE {id} \cup {d[id].tleaves[i] : i \in 1..Len(d[id].tleaves)}
              \cup FreeIds(d, d[id].tnext, fuel - 1)

\* C8: a CREATE TABLE that fails after validation leaves the catalog with
\* the same tables and columns as before, and the root page allocated for
\* the statement is back on the freelist.
C8_FailedCreateLeavesNoTrace ==
    [][(op'.name = "create_table" /\ op'.err # "OK") =>
         /\ list_tables(Nxt).rows = list_tables(Cur).rows
         /\ read_all_columns(Nxt).rows = read_all_columns(Cur).rows
         /\ op'.out # 0 => op'.out \in FreeIds(disk', first_trunk_id_', Len(disk'))]_vars

\* ------------------------------------------------------------ freelist claims
\* pages reachable on disk from trunk id by next_trunk_id, each counted with
\* its leaves; fuel bounds the walk by the number of pages in the file
RECURSIVE TrunkWalk(_, _, _)
TrunkWalk(d, id, fuel) ==
    IF id = 0 \/ fuel = 0 \/ ~can_read_page(d, id) THEN 0
    ELSE 1 + Len(d[id].tleaves) + TrunkWalk(d, d[id].tnext, fuel - 1)

ReachableFree == TrunkWalk(disk, disk[FIRST_PAGE_ID].meta.first_trunk_id, Len(disk))

\* C1: the persisted free_count equals the number of trunk pages reachable on
\* disk from first_trunk_id plus the sum of their leaf counts.
C1_FreelistConservation == disk[FIRST_PAGE_ID].meta.free_count = ReachableFree

\* C2: whenever some freed page id has not been handed out again, new_page
\* returns one of the freed ids and the file does not grow (also after
\* flush_all, close and reopen).
C2_ReuseBeforeGrowth ==
    [][(op'.name = "new_page" /\ op'.err = "OK" /\ hist.freed # {})
         => (op'.out \in hist.freed /\ page_count(disk') = page_count(disk))]_vars

\* ------------------------------------------------------------ buffer pool claims
FrameIds == DOMAIN frames
Occupied(f) == frames[f].id # 0
Pinned(f) == Occupied(f) /\ frames[f].pin_count > 0

\* C9: a frame with pin_count > 0 is never evicted or reassigned: across every
\* call it keeps its page, and the page's id stays mapped to that frame.
C9_PinnedFrameKeepsPage ==
    [][op'.name # "open" =>
         \A f \in FrameIds :
            Pinned(f) /\ frames'[f].pin_count > 0
              => /\ frames'[f].id = frames[f].id
                 /\ page_table'[frames[f].id] = f]_vars

AllPinned == \A f \in FrameIds : Pinned(f)
NeedsFrame == \/ op'.name = "new_page"
              \/ op'.name \in {"fetch", "fetch_pin"} /\ page_table[op'.id] = NoFrame

\* C10: fetch of an uncached page and new_page fail with CACHE_FULL exactly
\* when every frame holds a page with pin_count > 0; otherwise a frame is
\* obtained and no buffer-pool error is raised.
C10_CacheFullIffAllPinned ==
    [][NeedsFrame =>
         /\ (op'.err = "CACHE_FULL") <=> AllPinned
         /\ ~AllPinned => op'.err \notin {"CACHE_FULL", "INTERNAL_ERROR"}]_vars

\* ------------------------------------------------------------ buffer pool with page writes
MaxPoolSteps == 8
PoolCapacity == 3

\* the caller's pages: id is cached with no pin / with a pin
Unpinned(id) == IF page_table[id] = NoFrame THEN FALSE ELSE frames[page_table[id]].pin_count = 0
HeldPinned(id) == IF page_table[id] = NoFrame THEN FALSE ELSE frames[page_table[id]].pin_count > 0

\* the caller's note of a use of page id: id moves to the front of used
Touch(used, id) == <<id>> \o SelectSeq(used, LAMBDA u : u # id)

\* the caller's note of the image page id had when it was released dirty
Remember(image, id, p) == <<[id |-> id, page |-> p]>> \o SelectSeq(image, LAMBDA e : e.id # id)
Forget(image, id) == SelectSeq(image, LAMBDA e : e.id # id)

\* a page of the file that the caller reads beside its own pages
Shared == {catalog_tables_root_}

InitPool ==
    \E r \in {PageManager_ctor(<<>>, PoolCapacity)} :
       /\ Starts(r)
       /\ op = Call("open", 0, r)
       /\ hist = NoHist

\* pm.new_page(PageType::DATA)
PoolNewPage ==
    \E r \in {new_page(Cur, "DATA")} :
       /\ hist.steps < MaxPoolSteps
       /\ Becomes(r)
       /\ op' = Call("new_page", 0, r)
       /\ hist' = IF Ok(r) THEN [Tick(hist) EXCEPT !.allocated = @ \cup {r.out},
                                             !.freed = @ \ {r.out}]
                  ELSE Tick(hist)

\* pm.fetch(id, pin) of a page the caller owns or of the shared page, which
\* it does not hold pinned
PoolFetch ==
    \E id \in hist.allocated \cup Shared, pin \in BOOLEAN :
       /\ hist.steps < MaxPoolSteps
       /\ ~HeldPinned(id)
       /\ \E r \in {fetch(Cur, id, pin)} :
             /\ Becomes(r)
             /\ op' = Call(IF pin THEN "fetch_pin" ELSE "fetch", id, r)
             /\ hist' = IF Ok(r) /\ ~pin THEN [Tick(hist) EXCEPT !.used = Touch(@, id)]
                        ELSE Tick(hist)

\* the caller inserts a record through the Page& of a page it holds pinned
PoolWrite ==
    \E id \in hist.allocated :
       /\ hist.steps < MaxPoolSteps
       /\ HeldPinned(id)
       /\ \E w \in {Page_insert(frames[page_table[id]].page, <<1>>)} :
             /\ w.ok
             /\ \E r \in {SetPage(Cur, page_table[id], w.p)} :
                   /\ Becomes(r)
                   /\ op' = Call("write", id, r)
                   /\ hist' = [Tick(hist) EXCEPT !.pending = @ \cup {id}]

\* pm.unpin(id, dirty); the caller passes dirty = true exactly when it wrote
\* the page since it pinned it
PoolUnpin ==
    \E id \in hist.allocated \cup Shared :
       /\ hist.steps < MaxPoolSteps
       /\ HeldPinned(id)
       /\ \E r \in {unpin(Cur, id, id \in hist.pending)} :
             /\ Becomes(r)
             /\ op' = Call("unpin", id, r)
             /\ hist' = IF ~Ok(r) THEN Tick(hist)
                        ELSE [Tick(hist) EXCEPT
                                !.used = Touch(@, id),
                                !.pending = @ \ {id},
                                !.image = IF id \in hist.pending
                                          THEN Remember(@, id, r.frames[r.page_table[id]].page)
                                          ELSE @]

\* pm.free_page(id) of a page the caller owns and holds no pin on; free_page
\* itself fetches the page pinned and unpins it to zero
PoolFreePage ==
    \E id \in hist.allocated :
       /\ hist.steps < MaxPoolSteps
       /\ ~HeldPinned(id)
       /\ \E r \in {free_page(Cur, id)} :
             /\ Becomes(r)
             /\ op' = Call("free_page", id, r)
             /\ hist' = IF Ok(r) THEN [Tick(hist) EXCEPT !.allocated = @ \ {id},
                                                   !.freed = @ \cup {id},
                                                   !.image = Forget(@, id),
                                                   !.used = Touch(@, id)]
                        ELSE Tick(hist)

\* pm.flush_all()
PoolFlushAll ==
    \E r \in {flush_all(Cur)} :
       /\ hist.steps < MaxPoolSteps
       /\ Becomes(r)
       /\ op' = Call("flush_all", 0, r)
       /\ hist' = Tick(hist)

NextPool == PoolNewPage \/ PoolFetch \/ PoolWrite \/ PoolUnpin \/ PoolFreePage \/ PoolFlushAll

SpecPool == InitPool /\ [][NextPool]_vars

\* ------------------------------------------------------------ LRU claim
\* the place of page id in used (1 = latest use), 0 if it was never used
Pos(used, id) == IF \E i \in 1..Len(used) : used[i] = id
                 THEN CHOOSE i \in 1..Len(used) : used[i] = id ELSE 0

\* the call took the frame of the unpinned cached page v for another page
Evicted(v) ==
    /\ Unpinned(v)
    /\ op'.name \in {"new_page", "fetch", "fetch_pin", "free_page"}
    /\ IF page_table'[v] = NoFrame THEN op'.id # v ELSE frames'[page_table[v]].id # v

\* C11: when a frame is reclaimed, the victim is the unpinned cached page
\* whose latest unpin-to-zero or non-pinning fetch is the oldest among all
\* cached pages with pin_count 0.
C11_VictimIsLeastRecentlyUsed ==
    [][\A v \in PageIds :
          Evicted(v) => \A u \in PageIds :
                           Unpinned(u) => Pos(hist.used, u) <= Pos(hist.used, v)]_vars

\* ------------------------------------------------------------ dirty page claim
\* the pages the caller released with dirty = true and has not written since
Saved == {e \in {hist.image[i] : i \in 1..Len(hist.image)} : e.id \notin hist.pending}

\* C12: a page modified through the pool and released with unpin(id, true) is
\* never lost: a later fetch(id) returns the modified bytes, and after
\* flush_all the page on disk equals them and no frame is dirty.
C12_DirtyPageNeverLost ==
    [][/\ (op'.name \in {"fetch", "fetch_pin"} /\ op'.err = "OK")
             => \A e \in Saved : e.id = op'.id => frames'[op'.out].page = e.page
       /\ (op'.name = "flush_all" /\ op'.err = "OK")
             => /\ \A e \in Saved : disk'[e.id] = e.page
                /\ \A f \in DOMAIN frames' : ~frames'[f].dirty]_vars

\* ------------------------------------------------------------ update claim
\* the bytes of page id as the program holds them: the cached frame's, or
\* the file's when the page is not cached
PageNow(s, id) == IF s.page_table[id] # NoFrame THEN s.frames[s.page_table[id]].page
                  ELSE s.disk[id]

\* the locations handed out that hold a live row in state s
LiveLocs(s, locs) ==
    {l \in locs : IF can_read_page(s.disk, l.page_id)
                  THEN Page_read(PageNow(s, l.page_id), l.slot).ok ELSE FALSE}

\* the row the caller stored at loc
StoredAt(loc) == (CHOOSE i \in 1..Len(hist.rows) : hist.rows[i].loc = loc)

\* the location an update was called with
UpdLoc == [page_id |-> op'.id, slot |-> op'.out]

\* C13: update(loc, payload) on a live row returns loc exactly when payload
\* is no longer than the bytes stored in the slot; otherwise it returns a
\* different location and read(loc) reports not-found.  read of the returned
\* location yields payload and the number of live rows is unchanged.
C13_UpdateInPlaceOrRelocate ==
    [][(op'.name = "update" /\ ~hist'.failed /\ UpdLoc \in Locs(hist.rows)) =>
         /\ op'.err = "OK"
         /\ (op'.loc = UpdLoc) <=> (Len(op'.data) <= Len(hist.rows[StoredAt(UpdLoc)].data))
         /\ op'.loc # UpdLoc => ~TableHeap_read(Nxt, UpdLoc).ok
         /\ TableHeap_read(Nxt, op'.loc).ok
         /\ TableHeap_read(Nxt, op'.loc).data = op'.data
         /\ Cardinality(LiveLocs(Nxt, hist'.given)) = Cardinality(LiveLocs(Cur, hist.given))]_vars

\* ------------------------------------------------------------ truncate claim
\* the pages of the heap's chain after page id, following next_page_id
RECURSIVE ChainAfter(_, _, _)
ChainAfter(s, id, fuel) ==
    IF fuel = 0 \/ ~is_valid_page(id) \/ ~can_read_page(s.disk, id) THEN {}
    ELSE Bind(PageNow(s, id).next_page_id, LAMBDA next :
            IF is_valid_page(next) THEN {next} \cup ChainAfter(s, next, fuel - 1) ELSE {})

MaxPageSteps == 5
\* slot ids the caller passes: 0..MaxSlot
MaxSlot == 3
\* payloads of 0 to 3 bytes; 1 + 2 + 3 bytes fill the scaled-down page exactly
PagePayloads == {<<>>, <<7>>, <<8, 8>>, <<9, 9, 9>>}

\* a Page object of the caller, default-constructed
InitPage ==
    /\ Starts(PageManager_ctor(<<>>, Capacity))
    /\ op = Call("Page", 0, Cur)
    /\ hist = NoHist

\* the call record of a Page call: the slot argument, the result, and as data
\* the bytes read or the payload passed
PageCall(name, slot, payload, res) ==
    Call(name, slot, [Cur EXCEPT !.err = res.err, !.ok = res.ok, !.out = res.slot,
                                 !.data = IF name = "read" THEN res.data ELSE payload])

\* what the caller knows of the slots: rows[slot + 1] is the payload last
\* written to the slot and whether the slot is live
Written(h, name, slot, payload, res) ==
    IF ~res.ok THEN h.rows
    ELSE IF name = "insert" THEN Append(h.rows, [data |-> payload, live |-> TRUE])
    ELSE IF name = "update" THEN [h.rows EXCEPT ![slot + 1].data = payload]
    ELSE IF name = "erase" THEN [h.rows EXCEPT ![slot + 1].live = FALSE]
    ELSE h.rows

\* a Page call leaves the page and the result; nothing else changes
PageStep(name, slot, payload, res) ==
    /\ hist.steps < MaxPageSteps
    /\ storage_' = res.p
    /\ op' = PageCall(name, slot, payload, res)
    /\ hist' = [Tick(hist) EXCEPT !.rows = Written(hist, name, slot, payload, res)]
    /\ UNCHANGED <<disk, frames, page_table, lru, first_trunk_id_, free_count_,
                   catalog_tables_root_, catalog_columns_root_, next_table_id_,
                   root_page_id_, tail_page_id_, tables_loaded_, tables_cache_, sidecars>>

\* page.init(type, id)
PageInit ==
    /\ hist.steps < MaxPageSteps
    /\ \E type \in PageTypes :
          /\ storage_' = Storage_init(storage_, type, 1)
          /\ op' = [Call("init", 0, Cur) EXCEPT !.data = <<type>>]
    /\ hist' = [Tick(hist) EXCEPT !.rows = <<>>]
    /\ UNCHANGED <<disk, frames, page_table, lru, first_trunk_id_, free_count_,
                   catalog_tables_root_, catalog_columns_root_, next_table_id_,
                   root_page_id_, tail_page_id_, tables_loaded_, tables_cache_, sidecars>>

\* page.insert(payload, len, out_slot)
PageInsert ==
    \E payload \in PagePayloads :
       PageStep("insert", 0, payload, Storage_insert(storage_, payload))

\* page.read(slot, out)
PageRead ==
    \E slot \in 0..MaxSlot :
       PageStep("read", slot, <<>>, Storage_read(storage_, slot))

\* page.erase(slot)
PageErase ==
    \E slot \in 0..MaxSlot :
       PageStep("erase", slot, <<>>, Storage_erase(storage_, slot))

\* page.update(slot, payload, len)
PageUpdate ==
    \E slot \in 0..MaxSlot, payload \in PagePayloads :
       PageStep("update", slot, payload, Storage_update(storage_, slot, payload))

NextPage == PageInit \/ PageInsert \/ PageRead \/ PageErase \/ PageUpdate

SpecPage == InitPage /\ [][NextPage]_vars

\* ------------------------------------------------------------ page layout claim
\* slot directory entry of a slot
SlotOff(p, slot) == u16_at(p.bytes, slot_pos(slot))

\* C15: for a page initialised as DATA, after any sequence of Page::insert,
\* Page::erase and Page::update calls, successful or rejected:
\* header_size <= free_space_offset <= page_size - 2 * slot_count; every slot
\* below slot_count is 0xFFFF or an offset >= header_size with
\* offset + 2 + stored length <= free_space_offset; and record_count is the
\* number of slots that are not tombstones.
C15_PageLayout ==
    storage_.page_type = "DATA" =>
       /\ PAGE_HEADER_SIZE <= storage_.free_space_offset
       /\ storage_.free_space_offset <= PAGE_SIZE - SLOT_SIZE * storage_.slot_count
       /\ \A slot \in 0..(storage_.slot_count - 1) :
             \/ SlotOff(storage_, slot) = TOMBSTONE
             \/ /\ SlotOff(storage_, slot) >= PAGE_HEADER_SIZE
                /\ SlotOff(storage_, slot) + 2 + u16_at(storage_.bytes, SlotOff(storage_, slot))
                      <= storage_.free_space_offset
       /\ storage_.record_count
             = Cardinality({slot \in 0..(storage_.slot_count - 1) :
                               SlotOff(storage_, slot) # TOMBSTONE})

\* a DATA page filled until not even an empty record fits, one of whose
\* records has just been erased
C15_FullPageWithTombstone ==
    /\ storage_.page_type = "DATA"
    /\ ~Storage_insert(storage_, <<>>).ok
    /\ storage_.record_count < storage_.slot_count
    /\ op.name = "erase" /\ op.ok

\* ------------------------------------------------------------ other slots claim
\* the slot a call writes: the slot passed to erase and update, the slot a
\* successful insert hands out, none (-1) for a rejected insert
Target(o) == IF o.name = "insert" THEN (IF o.ok THEN o.out ELSE -1) ELSE o.id

\* what Page::read returns for a slot: the bool and the bytes
ReadOf(p, slot) == [Storage_read(p, slot) EXCEPT !.p = <<>>]

\* C16: Page::insert, Page::erase(s) and Page::update(s, .) never change what
\* Page::read returns for any other live slot t # s: also after the page was
\* filled until insert reports no space, and after erases and in-place
\* updates of other slots, read(t) returns exactly the bytes last written
\* to t.
C16_OtherSlotsKeepTheirBytes ==
    [][op'.name \in {"insert", "erase", "update"} =>
         \A t \in 0..MaxSlot :
            t # Target(op') =>
               /\ ReadOf(storage_', t) = ReadOf(storage_, t)
               /\ (t < Len(hist'.rows) /\ hist'.rows[t + 1].live /\ storage_'.page_type = "DATA")
                     => /\ ReadOf(storage_', t).ok
                        /\ ReadOf(storage_', t).data = hist'.rows[t + 1].data]_vars

\* the page is full, a record has just been shortened in place, and the
\* record stored right behind it is live
C16_UpdatedNextToLiveSlot ==
    /\ storage_.page_type = "DATA"
    /\ ~Storage_insert(storage_, <<>>).ok
    /\ op.name = "update" /\ op.ok /\ op.id = 0
    /\ op.data = <<7>>
    /\ Len(hist.rows) > 1 /\ hist.rows[2].live /\ Len(hist.rows[2].data) > 0

\* ------------------------------------------------------------ page type claim
\* page types on which the record calls are refused
NonData == {"METADATA", "FREE", "INDEX", "OVERFLOW_PAGE"}

\* the four record calls raise INVALID_PAGE_TYPE on p and leave it unchanged
Refused(p) ==
    /\ \A slot \in 0..1 :
          /\ Page_read(p, slot) = PageResult(p, FALSE, 0, <<>>, "INVALID_PAGE_TYPE")
          /\ Page_erase(p, slot) = PageResult(p, FALSE, 0, <<>>, "INVALID_PAGE_TYPE")
          /\ Page_update(p, slot, <<1>>) = PageResult(p, FALSE, 0, <<>>, "INVALID_PAGE_TYPE")
    /\ Page_insert(p, <<1>>) = PageResult(p, FALSE, 0, <<>>, "INVALID_PAGE_TYPE")

\* the page images the program holds: cached and on disk
Images == {frames[f].page : f \in DOMAIN frames} \cup {disk[i] : i \in DOMAIN disk}

\* C17: Page::insert, read, erase and update raise INVALID_PAGE_TYPE and leave
\* the page unchanged when the page's type is METADATA, FREE, INDEX or
\* OVERFLOW; in particular, between free_page(id) and the next new_page that
\* returns id, no record can be read from or written to page id through the
\* buffer pool: what fetch(id) hands out is a FREE page.
C17_NonDataPagesRefuseRecords ==
    /\ \A p \in Images : \A type \in NonData : Refused([p EXCEPT !.page_type = type])
    /\ \A id \in hist.freed :
          Bind(fetch(Cur, id, FALSE), LAMBDA r :
             Ok(r) => /\ r.frames[r.out].page.page_type = "FREE"
                      /\ Refused(r.frames[r.out].page))

\* a freed page whose image in the file is still a DATA page with a record,
\* and which fetch hands out
C17_FreedPageWithRecordOnDisk ==
    \E id \in hist.freed :
       /\ disk[id].page_type = "DATA"
       /\ disk[id].record_count > 0
       /\ Ok(fetch(Cur, id, FALSE))

\* ------------------------------------------------------------ records
\* record::encode lays a row out as: u16 field count, u16 bitmap length, null
\* bitmap, and per field a type byte, a u16 length and the payload bytes.
\* Scaled down with the page: the record header (count and null bitmap) is
\* one cell, count + 16 * bitmap; a field header is one cell,
\* type + 16 * length; a string is one cell per byte.
VARCHAR == 6
CellBase == 16

\* record::from_null(declared_type)
from_null(type) == [type |-> type, is_null |-> TRUE, payload |-> <<>>]

\* record::from_string
from_string(text) == [type |-> VARCHAR, is_null |-> FALSE, payload |-> text]

\* set_null_bit over the fields of a row
RECURSIVE null_bitmap(_, _)
null_bitmap(fields, i) ==
    IF i > Len(fields) THEN 0
    ELSE (IF fields[i].is_null THEN 2 ^ (i - 1) ELSE 0) + null_bitmap(fields, i + 1)

\* get_null_bit (index from 1 here)
get_null_bit(bitmap, i) == (bitmap \div 2 ^ (i - 1)) % 2 = 1

\* the field loop of record::encode
RECURSIVE encode_fields(_, _)
encode_fields(fields, i) ==
    IF i > Len(fields) THEN <<>>
    ELSE <<fields[i].type
            + CellBase * (IF fields[i].is_null THEN 0 ELSE Len(fields[i].payload))>>
         \o (IF fields[i].is_null THEN <<>> ELSE fields[i].payload)
         \o encode_fields(fields, i + 1)

\* record::encode; err is the StatusCode it throws
record_encode(fields) ==
    IF \E i \in 1..Len(fields) : fields[i].is_null /\ fields[i].payload # <<>>
    THEN [err |-> "INVALID_ARGUMENT", payload |-> <<>>]
    ELSE [err |-> "OK",
          payload |-> <<Len(fields) + CellBase * null_bitmap(fields, 1)>> \o encode_fields(fields, 1)]

\* the field loop of record::decode from cell p on; ok is FALSE where decode
\* returns false
RECURSIVE decode_fields(_, _, _, _, _)
decode_fields(data, p, i, count, bitmap) ==
    IF i > count THEN [ok |-> p = Len(data) + 1, fields |-> <<>>]
    ELSE IF p > Len(data) THEN [ok |-> FALSE, fields |-> <<>>]
    ELSE Bind(data[p] % CellBase, LAMBDA type :
         Bind(data[p] \div CellBase, LAMBDA field_len :
         Bind(get_null_bit(bitmap, i), LAMBDA is_null :
            IF p + field_len > Len(data) THEN [ok |-> FALSE, fields |-> <<>>]
            ELSE IF is_null /\ field_len # 0 THEN [ok |-> FALSE, fields |-> <<>>]
            ELSE Bind(decode_fields(data, p + 1 + field_len, i + 1, count, bitmap), LAMBDA rest :
                    [ok |-> rest.ok,
                     fields |-> <<[type |-> type, is_null |-> is_null,
                                   payload |-> SubSeq(data, p + 1, p + field_len)]>>
                                \o rest.fields]))))

\* record::decode
record_decode(data) ==
    IF Len(data) < 1 THEN [ok |-> FALSE, fields |-> <<>>]
    ELSE decode_fields(data, 2, 1, data[1] % CellBase, data[1] \div CellBase)

\* ------------------------------------------------------------ values and predicates
\* Value::null(type) and Value::string(text, type)
Value_null(type) == [is_null |-> TRUE, type |-> type, text |-> <<>>]
Value_string(text) == [is_null |-> FALSE, type |-> VARCHAR, text |-> text]

\* sql::LiteralValue of kind NULL_LITERAL or STRING
NullLiteral == [kind |-> "NULL_LITERAL", text |-> <<>>]
StringLiteral(text) == [kind |-> "STRING", text |-> text]

\* literal_to_value
literal_to_value(literal) ==
    IF literal.kind = "NULL_LITERAL" THEN Value_null(0) ELSE Value_string(literal.text)

\* std::string operator< : the bytes compared one by one from position i on,
\* a proper prefix being the smaller
RECURSIVE string_less(_, _, _)
string_less(l, r, i) ==
    IF i > Len(r) THEN FALSE
    ELSE IF i > Len(l) THEN TRUE
    ELSE IF l[i] # r[i] THEN l[i] < r[i]
    ELSE string_less(l, r, i + 1)

\* a comparison that takes NULL for the empty string
compare_null_as_empty(lhs, rhs) ==
    IF lhs.text = rhs.text THEN "Equal"
    ELSE IF string_less(lhs.text, rhs.text, 1) THEN "Less" ELSE "Greater"

\* compare(lhs, rhs) of two strings or NULLs
compare(lhs, rhs) ==
    IF lhs.is_null \/ rhs.is_null THEN "Unknown"
    ELSE IF lhs.text = rhs.text THEN "Equal"
    ELSE IF string_less(lhs.text, rhs.text, 1) THEN "Less" ELSE "Greater"

\* logical_and with Unknown dominating
logical_and_unknown_first(lhs, rhs) ==
    IF lhs = "Unknown" \/ rhs = "Unknown" THEN "Unknown"
    ELSE IF lhs = "False" \/ rhs = "False" THEN "False"
    ELSE "True"

\* logical_and
logical_and(lhs, rhs) ==
    IF lhs = "False" \/ rhs = "False" THEN "False"
    ELSE IF lhs = "Unknown" \/ rhs = "Unknown" THEN "Unknown"
    ELSE "True"

\* logical_or
logical_or(lhs, rhs) ==
    IF lhs = "True" \/ rhs = "True" THEN "True"
    ELSE IF lhs = "Unknown" \/ rhs = "Unknown" THEN "Unknown"
    ELSE "False"

\* logical_not
logical_not(value) ==
    IF value = "Unknown" THEN "Unknown"
    ELSE IF value = "True" THEN "False" ELSE "True"

\* the switch over the comparison operator in evaluate_predicate_internal
comparison_result(binary_op, cmp) ==
    IF cmp = "Unknown" THEN "Unknown"
    ELSE IF CASE binary_op = "EQUAL" -> cmp = "Equal"
              [] binary_op = "NOT_EQUAL" -> cmp # "Equal"
              [] binary_op = "LESS" -> cmp = "Less"
              [] binary_op = "LESS_EQUAL" -> cmp = "Less" \/ cmp = "Equal"
              [] binary_op = "GREATER" -> cmp = "Greater"
              [] binary_op = "GREATER_EQUAL" -> cmp = "Greater" \/ cmp = "Equal"
              [] OTHER -> FALSE
    THEN "True" ELSE "False"

\* a WHERE clause over the table's column: none, column <op> literal,
\* column IS [NOT] NULL, NOT e, e AND e, e OR e
NoWhere == [kind |-> "NONE", op |-> "", literal |-> NullLiteral]
Comparison(o, literal) == [kind |-> "BINARY", op |-> o, literal |-> literal]
NullTest(is_not_null) == [kind |-> "NULL_TEST", op |-> IF is_not_null THEN "IS NOT NULL" ELSE "IS NULL",
                          literal |-> NullLiteral]
Not(e) == [kind |-> "UNARY", op |-> "NOT", literal |-> NullLiteral, left |-> e]
Both(o, l, r) == [kind |-> "BINARY", op |-> o, literal |-> NullLiteral, left |-> l, right |-> r]

\* ExpressionEvaluator::evaluate_predicate_internal on a row of one column
RECURSIVE evaluate_predicate_internal(_, _)
evaluate_predicate_internal(where, values) ==
    IF where.kind = "UNARY"
    THEN logical_not(evaluate_predicate_internal(where.left, values))
    ELSE IF where.kind = "BINARY" /\ where.op = "AND"
    THEN logical_and(evaluate_predicate_internal(where.left, values),
                     evaluate_predicate_internal(where.right, values))
    ELSE IF where.kind = "BINARY" /\ where.op = "OR"
    THEN logical_or(evaluate_predicate_internal(where.left, values),
                    evaluate_predicate_internal(where.right, values))
    ELSE IF where.kind = "NULL_TEST"
    THEN (IF (where.op = "IS NOT NULL") = ~values[1].is_null THEN "True" ELSE "False")
    ELSE comparison_result(where.op, compare(values[1], literal_to_value(where.literal)))

\* ExpressionEvaluator::evaluate_predicate
evaluate_predicate(where, values) == evaluate_predicate_internal(where, values)

\* is_true
is_true(value) == value = "True"

\* ------------------------------------------------------------ columns
\* DDLExecutor::map_constraint: PRIMARY KEY implies NOT NULL and UNIQUE
map_constraint(ast) ==
    [not_null |-> ast.not_null \/ ast.primary_key, primary_key |-> ast.primary_key,
     unique |-> ast.primary_key, has_default |-> FALSE]

\* encode_constraints: the constraint mask of the column catalog entry
encode_constraints(c) ==
    (IF c.not_null THEN 1 ELSE 0) + (IF c.primary_key THEN 2 ELSE 0)
       + (IF c.unique THEN 4 ELSE 0) + (IF c.has_default THEN 8 ELSE 0)

\* decode_constraints
decode_constraints(mask) ==
    [not_null |-> mask % 2 = 1, primary_key |-> (mask \div 2) % 2 = 1,
     unique |-> (mask \div 4) % 2 = 1, has_default |-> (mask \div 8) % 2 = 1]

\* the ColumnDef of a column catalog entry: type, length and constraint mask
\* are stored with the entry and read back by ColumnCatalogEntry::deserialize;
\* ast[i] is the column definition of the CREATE TABLE statement
ColumnDefs(entries, ast) ==
    [i \in 1..Len(entries) |->
        [name |-> entries[i].column_id, type |-> VARCHAR,
         length |-> ast[entries[i].ordinal_position + 1].length,
         constraint |-> decode_constraints(
                           encode_constraints(map_constraint(ast[entries[i].ordinal_position + 1])))]]

\* ------------------------------------------------------------ DMLExecutor
\* the StatusCode of QueryException::invalid_constraint
invalid_constraint == "CONSTRAINT_VIOLATION"

\* the result of encoding a row: the StatusCode thrown, or the payload
Encoded(err, payload) == [err |-> err, payload |-> payload]

\* the column loop of DMLExecutor::encode_row without its NOT NULL and length
\* checks
RECURSIVE row_fields_unchecked(_, _, _)
row_fields_unchecked(columns, row, i) ==
    IF i > Len(columns) THEN [err |-> "OK", fields |-> <<>>]
    ELSE Bind(row_fields_unchecked(columns, row, i + 1), LAMBDA rest :
            [err |-> rest.err,
             fields |-> <<IF row[i].kind = "NULL_LITERAL" THEN from_null(columns[i].type)
                          ELSE from_string(row[i].text)>> \o rest.fields])

\* the column loop of DMLExecutor::encode_row from column i on: the fields,
\* or the StatusCode thrown
RECURSIVE row_fields(_, _, _)
row_fields(columns, row, i) ==
    IF i > Len(columns) THEN [err |-> "OK", fields |-> <<>>]
    ELSE Bind(columns[i], LAMBDA col :
         Bind(row[i], LAMBDA literal :
            IF literal.kind = "NULL_LITERAL" /\ col.constraint.not_null
            THEN [err |-> invalid_constraint, fields |-> <<>>]
            ELSE IF literal.kind # "NULL_LITERAL" /\ literal.kind # "STRING"
            THEN [err |-> "TYPE_ERROR", fields |-> <<>>]
            ELSE IF literal.kind = "STRING" /\ col.type = VARCHAR /\ col.length > 0
                    /\ Len(literal.text) > col.length
            THEN [err |-> invalid_constraint, fields |-> <<>>]
            ELSE Bind(row_fields(columns, row, i + 1), LAMBDA rest :
                    [err |-> rest.err,
                     fields |-> <<IF literal.kind = "NULL_LITERAL" THEN from_null(col.type)
                                  ELSE from_string(literal.text)>> \o rest.fields])))

\* DMLExecutor::encode_row; the statement names every column in catalog order
encode_row(columns, row) ==
    Bind(row_fields(columns, row, 1), LAMBDA r :
       IF r.err # "OK" THEN Encoded(r.err, <<>>)
       ELSE Encoded(record_encode(r.fields).err, record_encode(r.fields).payload))

\* the column loop of DMLExecutor::encode_values
RECURSIVE value_fields(_, _, _)
value_fields(columns, values, i) ==
    IF i > Len(columns) THEN [err |-> "OK", fields |-> <<>>]
    ELSE Bind(columns[i], LAMBDA column :
         Bind(values[i], LAMBDA value :
            IF value.is_null /\ column.constraint.not_null
            THEN [err |-> invalid_constraint, fields |-> <<>>]
            ELSE IF ~value.is_null /\ column.type = VARCHAR /\ column.length > 0
                    /\ Len(value.text) > column.length
            THEN [err |-> invalid_constraint, fields |-> <<>>]
            ELSE Bind(value_fields(columns, values, i + 1), LAMBDA rest :
                    [err |-> rest.err,
                     fields |-> <<IF value.is_null THEN from_null(column.type)
                                  ELSE from_string(value.text)>> \o rest.fields])))

\* DMLExecutor::encode_values
encode_values(columns, values) ==
    Bind(value_fields(columns, values, 1), LAMBDA r :
       IF r.err # "OK" THEN Encoded(r.err, <<>>)
       ELSE Encoded(record_encode(r.fields).err, record_encode(r.fields).payload))

\* DMLExecutor::decode_row_values: the StatusCode thrown, or the values
decode_row_values(columns, payload) ==
    Bind(record_decode(payload), LAMBDA d :
       IF ~d.ok THEN [err |-> "INVALID_RECORD_FORMAT", values |-> <<>>]
       ELSE IF Len(d.fields) # Len(columns) THEN [err |-> "INVALID_ARGUMENT", values |-> <<>>]
       ELSE [err |-> "OK",
             values |-> [i \in 1..Len(columns) |->
                            IF d.fields[i].is_null THEN Value_null(columns[i].type)
                            ELSE [is_null |-> FALSE, type |-> columns[i].type,
                                  text |-> d.fields[i].payload]]])

\* DMLExecutor::coerce_value_for_column for a VARCHAR column
coerce_value_for_column(column, value) ==
    IF value.is_null
    THEN (IF column.constraint.not_null THEN [err |-> invalid_constraint, value |-> value]
          ELSE [err |-> "OK", value |-> Value_null(column.type)])
    ELSE IF value.type # VARCHAR THEN [err |-> "TYPE_ERROR", value |-> value]
    ELSE [err |-> "OK", value |-> [value EXCEPT !.type = column.type]]

\* the lookups every statement starts with: catalog_.get_table, then
\* catalog_.get_columns; the columns are returned in s.rows
open_table(s, name, ast) ==
    Bind(get_table(s, name), LAMBDA s1 :
       IF ~Ok(s1) THEN s1
       ELSE IF ~s1.ok THEN Throw(s1, "TABLE_NOT_FOUND")
       ELSE Bind(get_columns(s1, s1.entry.table_id), LAMBDA s2 :
               IF ~Ok(s2) THEN s2
               ELSE [s2 EXCEPT !.entry = s1.entry, !.rows = ColumnDefs(s2.rows, ast)]))

\* a row loop that encodes every row before it inserts the first
RECURSIVE insert_rows_checked_first(_, _, _, _)
insert_rows_checked_first(s, columns, rows, i) ==
    IF ~Ok(s) THEN s
    ELSE IF \E j \in i..Len(rows) : Len(rows[j]) # Len(columns)
    THEN Throw(s, invalid_constraint)
    ELSE IF \E j \in i..Len(rows) : encode_row(columns, rows[j]).err # "OK"
    THEN Throw(s, encode_row(columns,
                             rows[CHOOSE j \in i..Len(rows) :
                                     /\ encode_row(columns, rows[j]).err # "OK"
                                     /\ \A h \in i..(j - 1) :
                                           encode_row(columns, rows[h]).err = "OK"]).err)
    ELSE IF i > Len(rows) THEN [s EXCEPT !.out = Len(rows)]
    ELSE insert_rows_checked_first(TableHeap_insert(s, encode_row(columns, rows[i]).payload),
                                   columns, rows, i + 1)

\* the row loop of DMLExecutor::insert_into from row i on
RECURSIVE insert_rows(_, _, _, _)
insert_rows(s, columns, rows, i) ==
    IF ~Ok(s) THEN s
    ELSE IF i > Len(rows) THEN [s EXCEPT !.out = Len(rows)]
    ELSE IF Len(rows[i]) # Len(columns) THEN Throw(s, invalid_constraint)
    ELSE Bind(encode_row(columns, rows[i]), LAMBDA e :
            IF e.err # "OK" THEN Throw(s, e.err)
            ELSE insert_rows(TableHeap_insert(s, e.payload), columns, rows, i + 1))

\* DMLExecutor::insert_into; rows_inserted is returned in s.out
insert_into(s, name, ast, rows) ==
    Bind(open_table(s, name, ast), LAMBDA s1 :
       IF ~Ok(s1) THEN s1
       ELSE IF s1.rows = <<>> THEN Throw(s1, invalid_constraint)
       ELSE Bind(TableHeap_ctor(s1, s1.entry.root_page_id), LAMBDA s2 :
               insert_rows(s2, s1.rows, rows, 1)))

\* the scan loop of DMLExecutor::delete_all from the iterator in s.it
RECURSIVE delete_scan(_, _, _, _, _)
delete_scan(s, columns, where, deleted, fuel) ==
    IF fuel = 0 THEN Throw(s, "DIVERGES")
    ELSE IF ~Ok(s) THEN s
    ELSE IF s.it.end_ THEN [s EXCEPT !.out = deleted]
    ELSE IF where.kind = "NONE"
    THEN Bind(TableHeap_erase(s, s.it.loc_), LAMBDA s1 :
            IF ~Ok(s1) THEN s1
            ELSE delete_scan(advance(s1), columns, where,
                             IF s1.ok THEN deleted + 1 ELSE deleted, fuel - 1))
    ELSE Bind(decode_row_values(columns, s.it.payload_), LAMBDA d :
            IF d.err # "OK" THEN Throw(s, d.err)
            ELSE IF ~is_true(evaluate_predicate(where, d.values))
            THEN delete_scan(advance(s), columns, where, deleted, fuel - 1)
            ELSE Bind(TableHeap_erase(s, s.it.loc_), LAMBDA s1 :
                    IF ~Ok(s1) THEN s1
                    ELSE delete_scan(advance(s1), columns, where,
                                     IF s1.ok THEN deleted + 1 ELSE deleted, fuel - 1)))

\* DMLExecutor::delete_all; rows_deleted is returned in s.out
delete_all(s, name, ast, where) ==
    Bind(open_table(s, name, ast), LAMBDA s1 :
       IF ~Ok(s1) THEN s1
       ELSE Bind(TableHeap_ctor(s1, s1.entry.root_page_id), LAMBDA s2 :
               IF ~Ok(s2) THEN s2
               ELSE delete_scan(TableHeap_begin(s2), s1.rows, where, 0, MaxScan)))

\* the scan of DMLExecutor::update_all that collects the targets
RECURSIVE collect_targets(_, _, _, _, _)
collect_targets(s, columns, where, targets, fuel) ==
    IF fuel = 0 THEN Throw(s, "DIVERGES")
    ELSE IF ~Ok(s) THEN s
    ELSE IF s.it.end_ THEN [s EXCEPT !.rows = targets]
    ELSE Bind(decode_row_values(columns, s.it.payload_), LAMBDA d :
            IF d.err # "OK" THEN Throw(s, d.err)
            ELSE IF where.kind # "NONE" /\ ~is_true(evaluate_predicate(where, d.values))
            THEN collect_targets(advance(s), columns, where, targets, fuel - 1)
            ELSE collect_targets(advance(s), columns, where,
                                 Append(targets, [location |-> s.it.loc_,
                                                  current_values |-> d.values]),
                                 fuel - 1))

\* the second loop of DMLExecutor::update_all from target i on; the
\* statement assigns one literal to the table's column
RECURSIVE update_targets(_, _, _, _, _)
update_targets(s, columns, targets, literal, i) ==
    IF ~Ok(s) THEN s
    ELSE IF i > Len(targets) THEN [s EXCEPT !.out = Len(targets)]
    ELSE Bind(coerce_value_for_column(columns[1], literal_to_value(literal)), LAMBDA c :
            IF c.err # "OK" THEN Throw(s, c.err)
            ELSE Bind(encode_values(columns, [targets[i].current_values EXCEPT ![1] = c.value]),
                      LAMBDA e :
                    IF e.err # "OK" THEN Throw(s, e.err)
                    ELSE update_targets(TableHeap_update(s, targets[i].location, e.payload),
                                        columns, targets, literal, i + 1)))

\* DMLExecutor::update_all; rows_updated is returned in s.out
update_all(s, name, ast, literal, where) ==
    Bind(open_table(s, name, ast), LAMBDA s1 :
       IF ~Ok(s1) THEN s1
       ELSE Bind(TableHeap_ctor(s1, s1.entry.root_page_id), LAMBDA s2 :
               IF ~Ok(s2) THEN s2
               ELSE Bind(collect_targets(TableHeap_begin(s2), s1.rows, where, <<>>, MaxScan),
                         LAMBDA s3 :
                       IF ~Ok(s3) THEN s3
                       ELSE update_targets(s3, s1.rows, s3.rows, literal, 1))))

\* Value::to_string of a string or NULL: the bytes of the text, or of "NULL"
to_string(value) == IF value.is_null THEN <<78, 85, 76, 76>> ELSE value.text

\* LIMIT absent: std::numeric_limits<std::size_t>::max()
NoLimit == -1

\* the callback of DMLExecutor::select on the scanned rows from row i on:
\* the StatusCode thrown, or the rows produced
RECURSIVE select_rows(_, _, _, _, _, _)
select_rows(scanned, columns, where, limit, i, produced) ==
    IF i > Len(scanned) THEN [err |-> "OK", rows |-> produced]
    ELSE IF limit # NoLimit /\ Len(produced) >= limit
    THEN select_rows(scanned, columns, where, limit, i + 1, produced)
    ELSE Bind(decode_row_values(columns, scanned[i].data), LAMBDA d :
            IF d.err # "OK" THEN [err |-> d.err, rows |-> produced]
            ELSE IF where.kind # "NONE" /\ ~is_true(evaluate_predicate(where, d.values))
            THEN select_rows(scanned, columns, where, limit, i + 1, produced)
            ELSE select_rows(scanned, columns, where, limit, i + 1,
                             Append(produced, [idx \in 1..Len(columns) |->
                                                  to_string(d.values[idx])])))

\* DMLExecutor::select of SELECT * FROM t [WHERE ...] [LIMIT n]; result.rows
\* is returned in s.rows, result.column_names in s.data, and the number of
\* rows heap.scan called the callback with in s.out
select(s, name, ast, where, limit) ==
    Bind(open_table(s, name, ast), LAMBDA s1 :
       IF ~Ok(s1) THEN s1
       ELSE IF s1.rows = <<>> THEN [s1 EXCEPT !.data = <<>>, !.out = 0]
       ELSE Bind([i \in 1..Len(s1.rows) |-> s1.rows[i].name], LAMBDA column_names :
            IF limit = 0 THEN [s1 EXCEPT !.rows = <<>>, !.data = column_names, !.out = 0]
            ELSE Bind(TableHeap_ctor(s1, s1.entry.root_page_id), LAMBDA s2 :
                 IF ~Ok(s2) THEN s2
                 ELSE Bind(TableHeap_scan(s2), LAMBDA s3 :
                      Bind(select_rows(s3.rows, s1.rows, where, limit, 1, <<>>), LAMBDA r :
                         IF r.err # "OK" THEN Throw(s3, r.err)
                         ELSE IF ~Ok(s3) THEN s3
                         ELSE [s3 EXCEPT !.out = Len(s3.rows), !.rows = r.rows,
                                         !.data = column_names])))))

\* ------------------------------------------------------------ DML statements
\* number of DML statements in a run
MaxDmlSteps == 3
\* capacity_ of the PageManager the statements run on
DmlCapacity == 2
\* n of the table's VARCHAR(n) column
VarcharLen == 2

\* the table every statement names
TheTable == 1

\* strings of one byte, of exactly n bytes and of n + 1 bytes
ShortText == <<97>>
ExactText == [i \in 1..VarcharLen |-> 98]
LongText == [i \in 1..(VarcharLen + 1) |-> 99]

Literals == {NullLiteral, StringLiteral(ShortText), StringLiteral(ExactText),
             StringLiteral(LongText)}

Wheres == {NoWhere, Comparison("EQUAL", StringLiteral(ShortText)),
           Comparison("NOT_EQUAL", StringLiteral(ShortText)), NullTest(FALSE)}

\* column definitions of CREATE TABLE t (v VARCHAR(n) [NOT NULL | PRIMARY KEY])
ColumnAsts == {<<[length |-> VarcharLen, not_null |-> nn, primary_key |-> pk]>> :
                  nn \in BOOLEAN, pk \in BOOLEAN} \ {<<[length |-> VarcharLen, not_null |-> TRUE,
                                                       primary_key |-> TRUE]>>}

\* INSERT statements: one row, or a short row followed by a second row
InsertRows == {<<<<literal>>>> : literal \in Literals}
                 \cup {<<<<StringLiteral(ShortText)>>, <<literal>>>> :
                          literal \in {NullLiteral, StringLiteral(LongText)}}
                 \cup {<<<<StringLiteral(ShortText)>>, <<StringLiteral(ExactText)>>,
                         <<StringLiteral(ShortText)>>>>}

\* a new database in which CREATE TABLE has run
InitDml ==
    \E ast \in ColumnAsts :
    \E r \in {create_from_ast(ensure_catalog_pages(PageManager_ctor(<<>>, DmlCapacity)),
                              TheTable, 1, TRUE)} :
       /\ Starts(r)
       /\ op = [stmt |-> [rows |-> <<>>, literal |-> NullLiteral, where |-> NoWhere]]
                  @@ Call("create_table", 0, r)
       /\ hist = [NoHist EXCEPT !.schema = ast, !.allocated = {r.out}]

\* the call record of a statement: the statement and its result
DmlCall(name, rows, literal, where, r) ==
    [stmt |-> [rows |-> rows, literal |-> literal, where |-> where]] @@ Call(name, 0, r)

\* one statement made; failed records that a statement before it raised an error
DmlStep(name, rows, literal, where, r) ==
    /\ hist.steps < MaxDmlSteps
    /\ Becomes(r)
    /\ op' = DmlCall(name, rows, literal, where, r)
    /\ hist' = [Tick(hist) EXCEPT !.failed = @ \/ op.err # "OK"]

\* INSERT INTO t VALUES (...), ...
DmlInsert ==
    \E rows \in InsertRows :
       DmlStep("insert_into", rows, NullLiteral, NoWhere,
               insert_into(Cur, TheTable, hist.schema, rows))

\* UPDATE t SET v = literal [WHERE ...]
DmlUpdate ==
    \E literal \in Literals, where \in Wheres :
       DmlStep("update_all", <<>>, literal, where,
               update_all(Cur, TheTable, hist.schema, literal, where))

\* DELETE FROM t [WHERE ...]
DmlDelete ==
    \E where \in Wheres :
       DmlStep("delete_all", <<>>, NullLiteral, where,
               delete_all(Cur, TheTable, hist.schema, where))

NextDml == DmlInsert \/ DmlUpdate \/ DmlDelete

SpecDml == InitDml /\ [][NextDml]_vars

\* ------------------------------------------------------------ table contents
\* root page of the table: the page CREATE TABLE allocated
TableRoot == CHOOSE id \in hist.allocated : TRUE

\* the live rows of one page, in slot order: location and stored field
RowsOnPage(p, id) ==
    SelectSeq([i \in 1..p.slot_count |->
                  [loc |-> [page_id |-> id, slot |-> i - 1],
                   live |-> Page_read(p, i - 1).err = "OK" /\ Page_read(p, i - 1).ok,
                   field |-> IF Page_read(p, i - 1).ok /\ record_decode(Page_read(p, i - 1).data).ok
                             THEN record_decode(Page_read(p, i - 1).data).fields[1]
                             ELSE from_null(0)]],
              LAMBDA e : e.live)

\* the live rows of the table in state s, in heap order
RECURSIVE RowsFrom(_, _, _)
RowsFrom(s, id, fuel) ==
    IF fuel = 0 \/ ~is_valid_page(id) \/ ~can_read_page(s.disk, id) THEN <<>>
    ELSE RowsOnPage(PageNow(s, id), id) \o RowsFrom(s, PageNow(s, id).next_page_id, fuel - 1)

TableRows(s) == RowsFrom(s, TableRoot, MaxPages + 1)

\* SQL's reading of the WHERE clause on a stored field: the row qualifies
Qualifies(where, field) ==
    IF where.kind = "NONE" THEN TRUE
    ELSE IF where.kind = "NULL_TEST" THEN (where.op = "IS NULL") = field.is_null
    ELSE /\ ~field.is_null
         /\ where.literal.kind = "STRING"
         /\ (where.op = "EQUAL") = (field.payload = where.literal.text)

\* how many rows of a sequence hold a field
CountOf(rows, field) == Cardinality({i \in 1..Len(rows) : rows[i].field = field})

\* the field a literal is stored as
FieldOf(literal) ==
    IF literal.kind = "NULL_LITERAL" THEN from_null(VARCHAR) ELSE from_string(literal.text)

\* the literal can be stored in the column
Storable(literal, ast) ==
    IF literal.kind = "NULL_LITERAL" THEN ~(ast[1].not_null \/ ast[1].primary_key)
    ELSE Len(literal.text) <= ast[1].length

\* ------------------------------------------------------------ UPDATE claim
\* C18: an UPDATE statement changes each row that satisfied the WHERE
\* predicate when the statement started exactly once, changes no other row,
\* and returns that count, also when an update relocates a row to a later
\* position in the heap or when the updated row still satisfies the predicate.
C18_UpdateEachQualifyingRowOnce ==
    [][(op'.name = "update_all" /\ Storable(op'.stmt.literal, hist.schema)) =>
          Bind(TableRows(Cur), LAMBDA before :
          Bind(TableRows(Nxt), LAMBDA after :
          Bind({i \in 1..Len(before) : Qualifies(op'.stmt.where, before[i].field)}, LAMBDA hit :
             /\ op'.err = "OK"
             /\ op'.out = Cardinality(hit)
             /\ Len(after) = Len(before)
             /\ \A i \in (1..Len(before)) \ hit :
                   \E j \in 1..Len(after) : after[j] = before[i]
             /\ \A f \in {after[j].field : j \in 1..Len(after)}
                         \cup {FieldOf(op'.stmt.literal)} :
                   CountOf(after, f)
                      = Cardinality({i \in (1..Len(before)) \ hit : before[i].field = f})
                        + (IF f = FieldOf(op'.stmt.literal) THEN Cardinality(hit) ELSE 0))))]_vars

\* ------------------------------------------------------------ DELETE claim
\* C19: DELETE with a WHERE predicate erases exactly the live rows for which
\* the predicate evaluates to True and returns their number, and DELETE
\* without WHERE erases every live row; rows whose predicate is False or
\* Unknown remain readable with unchanged contents.
C19_DeleteExactlyQualifyingRows ==
    [][op'.name = "delete_all" =>
          Bind(TableRows(Cur), LAMBDA before :
             /\ op'.err = "OK"
             /\ TableRows(Nxt)
                   = SelectSeq(before, LAMBDA e : ~Qualifies(op'.stmt.where, e.field))
             /\ op'.out = Len(before) - Len(TableRows(Nxt)))]_vars

\* ------------------------------------------------------------ constraint claim
\* the stored field satisfies the constraints of the column
Satisfies(field, ast) ==
    IF field.is_null THEN ~(ast[1].not_null \/ ast[1].primary_key)
    ELSE Len(field.payload) <= ast[1].length

\* the statement would store a value the column does not admit: a row of the
\* INSERT holds one, or the UPDATE assigns one to a row that qualifies
WouldViolate(stmt, name, before, ast) ==
    IF name = "insert_into"
    THEN \E i \in 1..Len(stmt.rows) : ~Storable(stmt.rows[i][1], ast)
    ELSE /\ ~Storable(stmt.literal, ast)
         /\ \E i \in 1..Len(before) : Qualifies(stmt.where, before[i].field)

\* no frame of the pool is pinned
NothingPinned == \A f \in FrameIds : ~Pinned(f)

C26_UnpinContract ==
    [][op'.name = "unpin" =>
          IF page_table[op'.id] = NoFrame
          THEN op'.err = "PAGE_NOT_FOUND" /\ UNCHANGED <<frames, page_table, lru, disk>>
          ELSE IF frames[page_table[op'.id]].pin_count = 0
          THEN op'.err = "PAGE_LOCKED" /\ UNCHANGED <<frames, page_table, lru, disk>>
          ELSE Bind(page_table[op'.id], LAMBDA idx :
                  /\ op'.err = "OK"
                  /\ UNCHANGED <<page_table, disk>>
                  /\ frames'[idx].pin_count = frames[idx].pin_count - 1
                  /\ frames'[idx].id = frames[idx].id
                  /\ frames'[idx].page = frames[idx].page
                  /\ frames[idx].dirty => frames'[idx].dirty
                  /\ \A f \in DOMAIN frames : f # idx => frames'[f] = frames[f]
                  /\ IF frames'[idx].pin_count = 0
                     THEN /\ frames'[idx].in_lru
                          /\ lru' # <<>>
                          /\ lru'[1] = [id |-> op'.id, fr |-> idx]
                          /\ SelectSeq(Tail(lru'), LAMBDA n : n.fr # NoFrame)
                                = SelectSeq(lru, LAMBDA n : n.fr # NoFrame /\ n.fr # idx)
                     ELSE lru' = lru /\ frames'[idx].in_lru = frames[idx].in_lru)]_vars

\* a dirty page has been released with unpin and is at the front of the LRU
\* list, ahead of another page
C26_DirtyPageUnpinnedToFront ==
    /\ op.name = "unpin" /\ op.err = "OK"
    /\ page_table[op.id] # NoFrame
    /\ frames[page_table[op.id]].pin_count = 0
    /\ frames[page_table[op.id]].dirty
    /\ Len(lru) >= 2 /\ lru[1].id = op.id /\ lru[2].id # op.id

\* ------------------------------------------------------------ pool structure claim
\* C30: after any sequence of buffer-pool operations every cached page id is
\* held by exactly one occupied frame and the page table maps it to that
\* frame, at most capacity pages are cached, and the LRU list holds each
\* cached page with pin_count 0 exactly once and no pinned or uncached page.
C30_PoolStructure ==
    /\ \A f \in FrameIds :
          Occupied(f) => /\ page_table[frames[f].id] = f
                         /\ \A g \in FrameIds : frames[g].id = frames[f].id => g = f
    /\ \A id \in TableDomain : page_table[id] # NoFrame => frames[page_table[id]].id = id
    /\ Cardinality({id \in TableDomain : page_table[id] # NoFrame}) <= Cardinality(FrameIds)
    /\ \A f \in FrameIds :
          (Occupied(f) /\ frames[f].pin_count = 0)
             => Cardinality({i \in 1..Len(lru) : lru[i].id = frames[f].id}) = 1
    /\ \A i \in 1..Len(lru) :
          /\ page_table[lru[i].id] # NoFrame
          /\ frames[page_table[lru[i].id]].pin_count = 0

\* ------------------------------------------------------------ table id claim
\* C24: every successful create_table assigns a table_id strictly greater
\* than every table_id a successful create_table assigned before it, with
\* DROP TABLE, failed CREATE TABLE, flush_all and close/reopen in between.
C24_TableIdsNeverReused ==
    [][(op'.name = "create_table" /\ op'.err = "OK")
          => \A id \in hist.given : op'.entry.table_id > id]_vars

\* a table has been created while a table id assigned before it names no
\* table any more
C24_CreatedAfterEarlierIdGone ==
    /\ op.name = "create_table" /\ op.err = "OK"
    /\ \E id \in hist.given :
          /\ id < op.entry.table_id
          /\ \A i \in 1..Len(list_tables(Cur).rows) : list_tables(Cur).rows[i].table_id # id

\* ------------------------------------------------------------ new database claim
\* the values of a database in which nothing has been created
Fresh(s) ==
    /\ page_count(s.disk) = 3
    /\ s.disk[FIRST_PAGE_ID].page_type = "METADATA"
    /\ {s.catalog_tables_root_, s.catalog_columns_root_} = {2, 3}
    /\ s.disk[2].page_type = "DATA" /\ s.disk[3].page_type = "DATA"
    /\ s.free_count_ = 0
    /\ s.first_trunk_id_ = 0
    /\ s.next_table_id_ = 1
    /\ list_tables(s).err = "OK"
    /\ list_tables(s).rows = <<>>

\* C25: a new, empty database file opens with page_count 3 (page 1 METADATA
\* and two distinct DATA catalog roots), free_count 0, first_trunk_id 0,
\* next_table_id 1 and an empty list_tables(); closing and reopening a
\* database with these values yields the same values and the same file.
C25_FreshDatabase ==
    [][/\ hist.steps = 0 => Fresh(Cur)
       /\ (Fresh(Cur) /\ op'.name = "open")
             => (op'.err = "OK" /\ Fresh(Nxt) /\ disk' = disk)]_vars

\* the new database has been closed and opened again, twice
C25_ReopenedTwice ==
    /\ op.name = "open" /\ hist.steps = 2
    /\ Fresh(Cur)

\* ------------------------------------------------------------ record size claim
\* C28: TableHeap::insert of a payload of at most MAX_RECORD_SIZE bytes does
\* not raise RECORD_TOO_LARGE, and as long as no call has failed it succeeds;
\* TableHeap::insert of a payload of MAX_RECORD_SIZE + 1 bytes raises
\* RECORD_TOO_LARGE.
C28_RecordSizeLimit ==
    [][op'.name = "insert" =>
          /\ Len(op'.data) <= MAX_RECORD_SIZE
                => /\ op'.err # "RECORD_TOO_LARGE"
                   /\ (~hist'.failed /\ hist.steps = 0) => op'.err = "OK"
          /\ Len(op'.data) = MAX_RECORD_SIZE + 1 => op'.err = "RECORD_TOO_LARGE"]_vars

\* ------------------------------------------------------------ records, byte by byte
\* record::encode and record::decode on whole bytes, for rows of any column
\* types. The record size limit is scaled down to a few dozen bytes.
MaxRecordBytes == 34
\* fields per row in the rows built from every combination of fields
MaxFields == 2
\* the smallest field count whose null bitmap takes two bytes
WideCount == 8 + 1

DataType_BOOLEAN == 1
INTEGER == 2

\* get_type_size: BOOLEAN 1; INTEGER, FLOAT 4; BIGINT, DOUBLE, DATE,
\* TIMESTAMP 8; the variable-length types 0
get_type_size(type) ==
    IF type = DataType_BOOLEAN THEN 1
    ELSE IF type \in {INTEGER, 4} THEN 4
    ELSE IF type \in {3, 5, 8, 9} THEN 8
    ELSE 0

\* record::from_bool
from_bool(v) == [type |-> DataType_BOOLEAN, is_null |-> FALSE, payload |-> <<IF v THEN 1 ELSE 0>>]

\* record::from_int32 of a v >= 0: append_pod of the four bytes, low byte first
from_int32(v) ==
    [type |-> INTEGER, is_null |-> FALSE,
     payload |-> [i \in 1..4 |-> (v \div 256 ^ (i - 1)) % 256]]

\* append_u16 with the high byte first
append_u16_big_endian(v) == <<(v \div 256) % 256, v % 256>>

\* append_u16: the two bytes appended, low byte first
append_u16(v) == <<v % 256, (v \div 256) % 256>>

\* read_u16 at position p (from 1) of data: ok is FALSE where it returns false
read_u16(data, p) ==
    IF p + 2 > Len(data) + 1 THEN [ok |-> FALSE, out |-> 0, p |-> p]
    ELSE [ok |-> TRUE, out |-> data[p] + 256 * data[p + 1], p |-> p + 2]

\* nullmap_bytes
nullmap_bytes(column_count) == (column_count + 7) \div 8

\* set_null_bit (index from 0): the bit OR-ed into its byte
set_null_bit(bitmap, index) ==
    [bitmap EXCEPT ![index \div 8 + 1] =
        IF (@ \div 2 ^ (index % 8)) % 2 = 1 THEN @ ELSE @ + 2 ^ (index % 8)]

\* get_null_bit on the bitmap of `bytes` bytes starting at bitmap_ptr (index from 0)
get_null_bit_at(data, bitmap_ptr, bytes, index) ==
    IF index \div 8 >= bytes THEN FALSE
    ELSE (data[bitmap_ptr + index \div 8] \div 2 ^ (index % 8)) % 2 = 1

\* the first loop of record::encode from field i (from 0) on: the bitmap, or
\* INVALID_ARGUMENT at a null field that has a payload
RECURSIVE encode_bitmap(_, _, _)
encode_bitmap(fields, i, bitmap) ==
    IF i >= Len(fields) THEN [err |-> "OK", bitmap |-> bitmap]
    ELSE IF fields[i + 1].is_null
    THEN (IF fields[i + 1].payload # <<>> THEN [err |-> "INVALID_ARGUMENT", bitmap |-> bitmap]
          ELSE encode_bitmap(fields, i + 1, set_null_bit(bitmap, i)))
    ELSE encode_bitmap(fields, i + 1, bitmap)

\* the second loop of record::encode from field i (from 0) on; out is the
\* buffer so far and total its size
RECURSIVE encode_loop(_, _, _)
encode_loop(fields, i, out) ==
    IF i >= Len(fields) THEN [err |-> "OK", payload |-> out]
    ELSE Bind(fields[i + 1], LAMBDA field :
         IF ~field.is_null /\ Len(field.payload) > U16_MAX
         THEN [err |-> "RECORD_TOO_LARGE", payload |-> <<>>]
         ELSE IF ~field.is_null /\ get_type_size(field.type) > 0
                 /\ Len(field.payload) # get_type_size(field.type)
         THEN [err |-> "INVALID_ARGUMENT", payload |-> <<>>]
         ELSE Bind(IF field.is_null THEN 0 ELSE Len(field.payload), LAMBDA len :
              Bind(out \o <<field.type>> \o append_u16(len)
                       \o (IF ~field.is_null /\ len > 0 THEN field.payload ELSE <<>>),
                   LAMBDA grown :
                      IF Len(grown) > MaxRecordBytes
                      THEN [err |-> "RECORD_TOO_LARGE", payload |-> <<>>]
                      ELSE encode_loop(fields, i + 1, grown))))

\* record::encode; err is the StatusCode it throws
encode(fields) ==
    IF Len(fields) > U16_MAX \/ nullmap_bytes(Len(fields)) > U16_MAX
    THEN [err |-> "INVALID_ARGUMENT", payload |-> <<>>]
    ELSE Bind(encode_bitmap(fields, 0, [b \in 1..nullmap_bytes(Len(fields)) |-> 0]),
              LAMBDA first :
                 IF first.err # "OK" THEN [err |-> first.err, payload |-> <<>>]
                 ELSE encode_loop(fields, 0,
                                  append_u16(Len(fields))
                                     \o append_u16(nullmap_bytes(Len(fields)))
                                     \o first.bitmap))

\* the loop of record::decode from field i (from 0) at position p on
RECURSIVE decode_loop(_, _, _, _, _, _)
decode_loop(data, p, i, count, bitmap_ptr, bitmap_len) ==
    IF i >= count THEN [ok |-> p = Len(data) + 1, fields |-> <<>>]
    ELSE IF p >= Len(data) + 1 THEN [ok |-> FALSE, fields |-> <<>>]
    ELSE Bind(read_u16(data, p + 1), LAMBDA field_len :
         IF ~field_len.ok THEN [ok |-> FALSE, fields |-> <<>>]
         ELSE IF field_len.p + field_len.out > Len(data) + 1 THEN [ok |-> FALSE, fields |-> <<>>]
         ELSE Bind(get_null_bit_at(data, bitmap_ptr, bitmap_len, i), LAMBDA is_null :
              IF is_null /\ field_len.out # 0 THEN [ok |-> FALSE, fields |-> <<>>]
              ELSE Bind(decode_loop(data, field_len.p + field_len.out, i + 1, count,
                                    bitmap_ptr, bitmap_len),
                        LAMBDA rest :
                           [ok |-> rest.ok,
                            fields |-> <<[type |-> data[p], is_null |-> is_null,
                                          payload |-> SubSeq(data, field_len.p,
                                                             field_len.p + field_len.out - 1)]>>
                                       \o rest.fields])))

\* record::decode; ok is its return value, fields is out_fields
decode(data) ==
    Bind(read_u16(data, 1), LAMBDA count :
    IF ~count.ok THEN [ok |-> FALSE, fields |-> <<>>]
    ELSE Bind(read_u16(data, count.p), LAMBDA bitmap_len :
         IF ~bitmap_len.ok THEN [ok |-> FALSE, fields |-> <<>>]
         ELSE IF bitmap_len.out < nullmap_bytes(count.out) THEN [ok |-> FALSE, fields |-> <<>>]
         ELSE IF bitmap_len.p + bitmap_len.out > Len(data) + 1 THEN [ok |-> FALSE, fields |-> <<>>]
         ELSE Bind(decode_loop(data, bitmap_len.p + bitmap_len.out, 0, count.out,
                               bitmap_len.p, bitmap_len.out),
                   LAMBDA r : r)))

\* fields a caller builds: nulls of two declared types, booleans, an integer,
\* strings of 0, 1 and VarcharLen bytes, an INTEGER of one byte and a null
\* field that carries bytes
RecordFields ==
    {from_null(VARCHAR), from_null(INTEGER), from_bool(TRUE), from_bool(FALSE),
     from_int32(258), from_string(<<>>), from_string(ShortText), from_string(ExactText),
     [type |-> INTEGER, is_null |-> FALSE, payload |-> <<1>>],
     [type |-> VARCHAR, is_null |-> TRUE, payload |-> ShortText]}

\* rows of up to MaxFields of these fields, and rows of WideCount fields each
\* a null BOOLEAN or true
FieldLists ==
    UNION {[1..n -> RecordFields] : n \in 0..MaxFields}
       \cup [1..WideCount -> {from_null(DataType_BOOLEAN), from_bool(TRUE)}]

\* the call record of a record call: the row, the bytes and the decoded row
RecordCall(name, fields, err, data, ok, decoded) ==
    [fields |-> fields]
       @@ Call(name, 0, [Cur EXCEPT !.err = err, !.data = data, !.ok = ok, !.rows = decoded])

\* a caller holding a row
InitRecord ==
    /\ Starts(PageManager_ctor(<<>>, Capacity))
    /\ \E fields \in FieldLists : op = RecordCall("fields", fields, "OK", <<>>, FALSE, <<>>)
    /\ hist = NoHist

\* a record call leaves its result; nothing else changes
RecordStep(call) ==
    /\ op' = call
    /\ hist' = Tick(hist)
    /\ UNCHANGED <<disk, frames, page_table, lru, first_trunk_id_, free_count_,
                   catalog_tables_root_, catalog_columns_root_, next_table_id_,
                   root_page_id_, tail_page_id_, tables_loaded_, tables_cache_, sidecars,
                   storage_>>

\* bytes = record::encode(fields)
RecordEncode ==
    /\ op.name = "fields"
    /\ \E r \in {encode(op.fields)} :
          RecordStep(RecordCall("encode", op.fields, r.err, r.payload, r.err = "OK", <<>>))

\* record::decode(bytes.data(), bytes.size(), out)
RecordDecode ==
    /\ op.name = "encode"
    /\ op.err = "OK"
    /\ \E r \in {decode(op.data)} :
          RecordStep(RecordCall("decode", op.fields, "OK", op.data, r.ok, r.fields))

\* record::decode of the bytes cut short
RecordDecodeShort ==
    /\ op.name = "encode"
    /\ op.err = "OK"
    /\ \E n \in 0..(Len(op.data) - 1) :
       \E r \in {decode(SubSeq(op.data, 1, n))} :
          RecordStep(RecordCall("decode_short", op.fields, "OK", SubSeq(op.data, 1, n),
                                r.ok, r.fields))

NextRecord == RecordEncode \/ RecordDecode \/ RecordDecodeShort

SpecRecord == InitRecord /\ [][NextRecord]_vars

\* ------------------------------------------------------------ record round trip claim
\* C27: for every field list that record::encode accepts, record::decode of
\* the encoded bytes succeeds and returns a list of the same length whose
\* fields have, one by one, the same declared type, the same null flag and
\* the same payload bytes; a null field keeps its declared type and has no
\* bytes.
C27_DecodeOfEncode ==
    op.name = "decode" =>
       /\ op.ok
       /\ Len(op.rows) = Len(op.fields)
       /\ \A i \in 1..Len(op.fields) :
             /\ op.rows[i].type = op.fields[i].type
             /\ op.rows[i].is_null = op.fields[i].is_null
             /\ op.rows[i].payload = op.fields[i].payload
             /\ op.rows[i].is_null => op.rows[i].payload = <<>>

\* a decoded row whose null bitmap has two bytes: its last field is null
\* and its first is not
C27_WideRowDecoded ==
    /\ op.name = "decode"
    /\ op.ok
    /\ Len(op.fields) = WideCount
    /\ op.fields[WideCount].is_null
    /\ ~op.fields[1].is_null

\* ------------------------------------------------------------ values and three-valued logic
\* TriBool and the six comparison operators of sql::BinaryOperator
TriBools == {"True", "False", "Unknown"}
Operators == {"EQUAL", "NOT_EQUAL", "LESS", "LESS_EQUAL", "GREATER", "GREATER_EQUAL"}

\* values a caller compares: NULL and strings of 0 to VarcharLen + 1 bytes
Values == {Value_null(VARCHAR), Value_string(<<>>), Value_string(ShortText),
           Value_string(ExactText), Value_string(LongText)}

\* the call record of a value call: the operands, the operator and the TriBool
ValueCall(name, lhs, rhs, o, value) ==
    [lhs |-> lhs, rhs |-> rhs, binary_op |-> o, value |-> value] @@ Call(name, 0, Cur)

\* the caller's last two results, oldest first: v pushed
Push(stack, v) == IF Len(stack) < 2 THEN Append(stack, v) ELSE <<stack[2], v>>

\* a caller that has computed nothing yet
InitValue ==
    /\ Starts(PageManager_ctor(<<>>, Capacity))
    /\ op = ValueCall("values", "", "", "", "")
    /\ hist = NoHist

\* a value call leaves its result with the caller; nothing else changes
ValueStep(call, stack) ==
    /\ op' = call
    /\ hist' = [hist EXCEPT !.rows = stack]
    /\ UNCHANGED <<disk, frames, page_table, lru, first_trunk_id_, free_count_,
                   catalog_tables_root_, catalog_columns_root_, next_table_id_,
                   root_page_id_, tail_page_id_, tables_loaded_, tables_cache_, sidecars,
                   storage_>>

\* lhs <op> rhs as evaluate_predicate_internal evaluates a comparison
ValueCompare ==
    \E lhs \in Values, rhs \in Values, o \in Operators :
    \E value \in {comparison_result(o, compare(lhs, rhs))} :
       ValueStep(ValueCall("compare", lhs, rhs, o, value), Push(hist.rows, value))

\* logical_and of the last two results
ValueAnd ==
    /\ Len(hist.rows) = 2
    /\ \E value \in {logical_and(hist.rows[1], hist.rows[2])} :
          ValueStep(ValueCall("logical_and", hist.rows[1], hist.rows[2], "AND", value),
                    <<value>>)

\* logical_or of the last two results
ValueOr ==
    /\ Len(hist.rows) = 2
    /\ \E value \in {logical_or(hist.rows[1], hist.rows[2])} :
          ValueStep(ValueCall("logical_or", hist.rows[1], hist.rows[2], "OR", value),
                    <<value>>)

\* logical_not of the last result
ValueNot ==
    /\ Len(hist.rows) >= 1
    /\ \E value \in {logical_not(hist.rows[Len(hist.rows)])} :
          ValueStep(ValueCall("logical_not", hist.rows[Len(hist.rows)], "", "NOT", value),
                    [hist.rows EXCEPT ![Len(hist.rows)] = value])

NextValue == ValueCompare \/ ValueAnd \/ ValueOr \/ ValueNot

SpecValue == InitValue /\ [][NextValue]_vars

\* ------------------------------------------------------------ Kleene logic claim
\* the Kleene truth tables, as <<lhs, rhs, result>> and <<operand, result>>
KleeneAnd ==
    {<<"True", "True", "True">>, <<"True", "False", "False">>, <<"True", "Unknown", "Unknown">>,
     <<"False", "True", "False">>, <<"False", "False", "False">>, <<"False", "Unknown", "False">>,
     <<"Unknown", "True", "Unknown">>, <<"Unknown", "False", "False">>,
     <<"Unknown", "Unknown", "Unknown">>}
KleeneOr ==
    {<<"True", "True", "True">>, <<"True", "False", "True">>, <<"True", "Unknown", "True">>,
     <<"False", "True", "True">>, <<"False", "False", "False">>, <<"False", "Unknown", "Unknown">>,
     <<"Unknown", "True", "True">>, <<"Unknown", "False", "Unknown">>,
     <<"Unknown", "Unknown", "Unknown">>}
KleeneNot == {<<"True", "False">>, <<"False", "True">>, <<"Unknown", "Unknown">>}

\* C29: logical_and, logical_or and logical_not agree with the Kleene truth
\* tables on every combination of True, False and Unknown: AND is False if
\* either operand is False, otherwise Unknown if either is Unknown, otherwise
\* True; OR is True if either operand is True, otherwise Unknown if either is
\* Unknown, otherwise False; NOT exchanges True and False and keeps Unknown.
C29_KleeneTables ==
    /\ op.name = "logical_and" => <<op.lhs, op.rhs, op.value>> \in KleeneAnd
    /\ op.name = "logical_or" => <<op.lhs, op.rhs, op.value>> \in KleeneOr
    /\ op.name = "logical_not" => <<op.lhs, op.value>> \in KleeneNot

\* Unknown AND False, the combination in which False has to win over Unknown
C29_UnknownAndFalse ==
    /\ op.name = "logical_and"
    /\ op.lhs = "Unknown"
    /\ op.rhs = "False"

\* ------------------------------------------------------------ queries
\* number of statements in a run, the first being the INSERT that loads the table
MaxQuerySteps == 2
\* capacity_ of the PageManager the queries run on
QueryCapacity == 4
\* the largest n of LIMIT n
MaxLimit == 2

\* CREATE TABLE t (v VARCHAR(n)): a column that admits NULL
NullableColumn == <<[length |-> VarcharLen, not_null |-> FALSE, primary_key |-> FALSE]>>

\* the INSERT statements that load the table: three rows, which take two
\* pages, with the NULL in the middle or in front, and two rows without NULL
QueryLoads ==
    {<<<<StringLiteral(ShortText)>>, <<NullLiteral>>, <<StringLiteral(ExactText)>>>>,
     <<<<NullLiteral>>, <<StringLiteral(ShortText)>>, <<StringLiteral(ShortText)>>>>,
     <<<<StringLiteral(ExactText)>>, <<StringLiteral(ShortText)>>>>}

\* WHERE clauses: none, v <op> 'a' and v <op> NULL for the six operators,
\* and comparisons under NOT
QueryWheres ==
    {NoWhere}
       \cup {Comparison(o, literal) : o \in Operators,
                                      literal \in {StringLiteral(ShortText), NullLiteral}}
       \cup {Not(Comparison(o, NullLiteral)) : o \in {"EQUAL", "LESS"}}
       \cup {Not(Comparison("GREATER", StringLiteral(ShortText))),
             Not(Not(Comparison("NOT_EQUAL", StringLiteral(ShortText))))}

\* the call record of a statement: the statement with its LIMIT, and its result
QueryCall(name, rows, literal, where, limit, r) ==
    [stmt |-> [rows |-> rows, literal |-> literal, where |-> where, limit |-> limit]]
       @@ Call(name, 0, r)

\* a new database in which CREATE TABLE has run
InitQuery ==
    \E r \in {create_from_ast(ensure_catalog_pages(PageManager_ctor(<<>>, QueryCapacity)),
                              TheTable, 1, TRUE)} :
       /\ Starts(r)
       /\ op = QueryCall("create_table", <<>>, NullLiteral, NoWhere, NoLimit, r)
       /\ hist = [NoHist EXCEPT !.schema = NullableColumn, !.allocated = {r.out}]

\* one statement made
QueryStep(call, r) ==
    /\ hist.steps < MaxQuerySteps
    /\ Becomes(r)
    /\ op' = call
    /\ hist' = Tick(hist)

\* the first statement: INSERT INTO t VALUES (...), (...), ...
QueryLoad ==
    /\ hist.steps = 0
    /\ \E rows \in QueryLoads :
       \E r \in {insert_into(Cur, TheTable, hist.schema, rows)} :
          QueryStep(QueryCall("insert_into", rows, NullLiteral, NoWhere, NoLimit, r), r)

\* SELECT * FROM t [WHERE ...] [LIMIT n]
QuerySelect ==
    /\ hist.steps > 0
    /\ \E where \in QueryWheres, limit \in {NoLimit} \cup 0..MaxLimit :
       \E r \in {select(Cur, TheTable, hist.schema, where, limit)} :
          QueryStep(QueryCall("select", <<>>, NullLiteral, where, limit, r), r)

\* DELETE FROM t [WHERE ...]
QueryDelete ==
    /\ hist.steps > 0
    /\ \E where \in QueryWheres :
       \E r \in {delete_all(Cur, TheTable, hist.schema, where)} :
          QueryStep(QueryCall("delete_all", <<>>, NullLiteral, where, NoLimit, r), r)

\* UPDATE t SET v = 'bb' [WHERE ...]
QueryUpdate ==
    /\ hist.steps > 0
    /\ \E where \in QueryWheres :
       \E r \in {update_all(Cur, TheTable, hist.schema, StringLiteral(ExactText), where)} :
          QueryStep(QueryCall("update_all", <<>>, StringLiteral(ExactText), where, NoLimit, r),
                    r)

NextQuery == QueryLoad \/ QuerySelect \/ QueryDelete \/ QueryUpdate

SpecQuery == InitQuery /\ [][NextQuery]_vars

\* ------------------------------------------------------------ NULL comparison claim
\* the expression under the NOTs of a WHERE clause
RECURSIVE Innermost(_)
Innermost(where) == IF where.kind = "UNARY" THEN Innermost(where.left) ELSE where

\* the WHERE clause, negated or not, compares the stored field with a
\* literal, and the field or the literal is NULL
NullOperand(where, field) ==
    Bind(Innermost(where), LAMBDA e :
       /\ e.kind = "BINARY"
       /\ e.op \in Operators
       /\ (field.is_null \/ e.literal.kind = "NULL_LITERAL"))

\* the Value a stored field decodes to, and the row SELECT * prints for it
ValueOf(field) == IF field.is_null THEN Value_null(field.type) ELSE Value_string(field.payload)
Printed(field) == <<IF field.is_null THEN <<78, 85, 76, 76>> ELSE field.payload>>

\* a is b with some elements left out
RECURSIVE IsSubSeq(_, _)
IsSubSeq(a, b) ==
    IF a = <<>> THEN TRUE
    ELSE IF b = <<>> THEN FALSE
    ELSE IF Head(a) = Head(b) THEN IsSubSeq(Tail(a), Tail(b))
    ELSE IsSubSeq(a, Tail(b))

\* C22: for each of the six comparison operators, a comparison of the row's
\* value with a literal in which either one is NULL evaluates to Unknown, also
\* under NOT; such a row is not among the rows SELECT returns, and DELETE and
\* UPDATE leave it where it is with its contents.
C22_NullComparisonExcludesRow ==
    [][op'.name \in {"select", "delete_all", "update_all"} =>
          Bind(TableRows(Cur), LAMBDA before :
          Bind(TableRows(Nxt), LAMBDA after :
             /\ \A i \in 1..Len(before) :
                   NullOperand(op'.stmt.where, before[i].field)
                      => /\ evaluate_predicate(op'.stmt.where, <<ValueOf(before[i].field)>>)
                               = "Unknown"
                         /\ \E j \in 1..Len(after) : after[j] = before[i]
             /\ (op'.name = "select" /\ op'.err = "OK")
                   => Bind(SelectSeq(before,
                                     LAMBDA e : ~NullOperand(op'.stmt.where, e.field)),
                           LAMBDA others :
                              IsSubSeq(op'.rows,
                                       [i \in 1..Len(others) |-> Printed(others[i].field)]))))]_vars

\* DELETE ... WHERE NOT (v = NULL) has run on a table of three rows and
\* deleted none of them
C22_NegatedNullComparisonDeletesNothing ==
    /\ op.name = "delete_all"
    /\ op.err = "OK"
    /\ op.stmt.where = Not(Comparison("EQUAL", NullLiteral))
    /\ op.out = 0
    /\ Len(TableRows(Cur)) = 3

\* ------------------------------------------------------------ LIMIT claim
\* C23: SELECT ... LIMIT n returns exactly the first min(n, m) of the m rows
\* that satisfy the WHERE predicate, in heap scan order, with the column
\* headers of the projection (also for LIMIT 0, which returns no row), and
\* once the n-th row is produced the scan stops: no row after it is visited.
C23_SelectLimit ==
    [][(op'.name = "select" /\ op'.err = "OK") =>
          Bind(TableRows(Cur), LAMBDA before :
          Bind(SelectSeq(before,
                         LAMBDA e : IF op'.stmt.where.kind = "NONE" THEN TRUE
                                    ELSE is_true(evaluate_predicate(op'.stmt.where,
                                                                    <<ValueOf(e.field)>>))),
               LAMBDA qualifying :
          Bind(IF op'.stmt.limit = NoLimit \/ op'.stmt.limit > Len(qualifying)
               THEN Len(qualifying) ELSE op'.stmt.limit,
               LAMBDA n :
             /\ op'.rows = [i \in 1..n |-> Printed(qualifying[i].field)]
             /\ Len(op'.data) = Len(hist.schema)
             /\ (op'.stmt.limit # NoLimit /\ n = op'.stmt.limit)
                   => op'.out = IF n = 0 THEN 0
                                ELSE CHOOSE i \in 1..Len(before) :
                                        before[i].loc = qualifying[n].loc)))]_vars

\* ------------------------------------------------------------ multi-row INSERT claim
\* C21: when a row of a multi-row INSERT is rejected, the statement raises
\* the error without rolling back: for some k, the rows of the statement
\* before row k are stored next to the rows the table had, which are
\* untouched, row k and the rows after it are not stored, and a SELECT made
\* next returns exactly these rows; when the error is CONSTRAINT_VIOLATION,
\* row k is the first row of the statement that the column does not admit.
C21_FailedInsertKeepsEarlierRows ==
    [][(op'.name = "insert_into" /\ op'.err # "OK") =>
          Bind(TableRows(Cur), LAMBDA before :
          Bind(TableRows(Nxt), LAMBDA after :
          Bind(op'.stmt.rows, LAMBDA rows :
             \E k \in 1..Len(rows) :
                /\ op'.err = invalid_constraint
                      => /\ ~Storable(rows[k][1], hist.schema)
                         /\ \A i \in 1..(k - 1) : Storable(rows[i][1], hist.schema)
                /\ Len(after) = Len(before) + k - 1
                /\ \A i \in 1..Len(before) : \E j \in 1..Len(after) : after[j] = before[i]
                /\ \A f \in {after[j].field : j \in 1..Len(after)}
                            \cup {FieldOf(rows[i][1]) : i \in 1..Len(rows)} :
                      CountOf(after, f)
                         = CountOf(before, f)
                           + Cardinality({i \in 1..(k - 1) : FieldOf(rows[i][1]) = f})
                /\ Bind(select(Nxt, TheTable, hist.schema, NoWhere, NoLimit), LAMBDA later :
                      Ok(later) => later.rows = [j \in 1..Len(after) |->
                                                    Printed(after[j].field)]))))]_vars

\* INSERT INTO t VALUES ('a'), ('ccc') into a VARCHAR(2) column has raised
\* CONSTRAINT_VIOLATION and the row 'a' is in the table
C21_ShortRowKeptLongRowRefused ==
    /\ op.name = "insert_into"
    /\ op.err = invalid_constraint
    /\ op.stmt.rows = <<<<StringLiteral(ShortText)>>, <<StringLiteral(LongText)>>>>
    /\ CountOf(TableRows(Cur), from_string(ShortText)) >= 1

\* ------------------------------------------------------------ catalog persistence claim
\* C31: after CREATE TABLE and DROP TABLE statements followed by flush_all,
\* close and reopen, list_tables() returns exactly the tables that were
\* created and not dropped, with the same table_id, name and root_page_id,
\* get_columns returns exactly their columns, and get_columns of a dropped
\* table returns nothing.
C31_CatalogSurvivesReopen ==
    [][(op'.name = "open" /\ op'.err = "OK") =>
          Bind(list_tables(Nxt), LAMBDA tables :
             /\ Ok(tables)
             /\ Len(tables.rows) = Len(hist.rows)
             /\ {tables.rows[i] : i \in 1..Len(tables.rows)}
                   = {hist.rows[i].entry : i \in 1..Len(hist.rows)}
             /\ \A i \in 1..Len(hist.rows) :
                   Bind(get_columns(Nxt, hist.rows[i].entry.table_id), LAMBDA columns :
                      /\ Ok(columns)
                      /\ [j \in 1..Len(columns.rows) |-> columns.rows[j].ordinal_position]
                            = [j \in 1..hist.rows[i].columns |-> j - 1])
             /\ \A id \in hist.given \ {hist.rows[i].entry.table_id : i \in 1..Len(hist.rows)} :
                   Bind(get_columns(Nxt, id), LAMBDA columns :
                      Ok(columns) /\ columns.rows = <<>>))]_vars

\* ------------------------------------------------------------ allocation claims
\* C32: when free_page is applied only to ids that are currently allocated,
\* new_page never returns page 1, a catalog root page, or an id that an
\* earlier new_page returned and that has not been freed since, also across
\* flush, flush_all, eviction and close/reopen.
C32_NewPageReturnsUnusedId ==
    [][(op'.name = "new_page" /\ op'.err = "OK")
         => /\ op'.out \notin Reserved
            /\ op'.out \notin hist.allocated
            /\ op'.out # INVALID_PAGE_ID]_vars

\* a freed id is handed out again while a page allocated after it is still in use
C32_FreedIdReusedBesideLivePage ==
    /\ op.name = "new_page" /\ op.err = "OK"
    /\ \E id \in hist.allocated : id > op.out
    /\ op.out \in hist.allocated

\* ------------------------------------------------------------ failed update claim
\* C33: if TableHeap::update raises an error (CACHE_FULL or PAGE_FULL while
\* relocating, for example), the row is still live at its original location
\* with its original payload.
C33_FailedUpdateKeepsRow ==
    [][(op'.name = "update" /\ op'.err # "OK" /\ UpdLoc \in LiveLocs(Cur, hist.given)) =>
          /\ UpdLoc \in LiveLocs(Nxt, hist.given)
          /\ Page_read(PageNow(Nxt, UpdLoc.page_id), UpdLoc.slot).data
                = Page_read(PageNow(Cur, UpdLoc.page_id), UpdLoc.slot).data]_vars

\* ------------------------------------------------------------ failed allocation claim
\* C34: if new_page fails with CACHE_FULL, then first_trunk_id, free_count,
\* the trunk contents and the file's page_count are the same as before the
\* call: no page id is consumed by the failed allocation.
C34_FailedNewPageConsumesNothing ==
    [][(op'.name = "new_page" /\ op'.err = "CACHE_FULL") =>
          /\ first_trunk_id_' = first_trunk_id_
          /\ free_count_' = free_count_
          /\ page_count(disk') = page_count(disk)
          /\ \A id \in 1..page_count(disk) :
                /\ disk'[id].tnext = disk[id].tnext
                /\ disk'[id].tleaves = disk[id].tleaves
          /\ disk'[FIRST_PAGE_ID].meta = disk[FIRST_PAGE_ID].meta]_vars

\* ------------------------------------------------------------ DROP TABLE of a loaded table
\* number of statements in a run that drops a table with rows
MaxDropSteps == 3

\* a new database in which CREATE TABLE t (v VARCHAR(n)) has run
InitDrop ==
    \E r \in {create_from_ast(ensure_catalog_pages(PageManager_ctor(<<>>, QueryCapacity)),
                              TheTable, 1, TRUE)} :
       /\ Starts(r)
       /\ op = Call("create_table", TheTable, r)
       /\ hist = [NoHist EXCEPT !.schema = NullableColumn, !.allocated = {r.out}]

\* one statement made
DropStep(name, r) ==
    /\ hist.steps < MaxDropSteps
    /\ Becomes(r)
    /\ op' = Call(name, TheTable, r)

\* INSERT INTO t VALUES (...), ... while the file has room for the pages of
\* one more statement
DropInsert ==
    /\ page_count(disk) < MaxPages
    /\ \E rows \in QueryLoads \cup InsertRows :
       \E r \in {insert_into(Cur, TheTable, hist.schema, rows)} :
          /\ DropStep("insert_into", r)
          /\ hist' = Tick(hist)

\* DROP TABLE t
DropDropTable ==
    \E r \in {drop_from_ast(Cur, TheTable)} :
       /\ DropStep("drop_table", r)
       /\ hist' = Tick(hist)

\* CREATE TABLE t (v VARCHAR(n)) once more
DropCreateTable ==
    \E r \in {create_from_ast(Cur, TheTable, 1, TRUE)} :
       /\ DropStep("create_table", r)
       /\ hist' = IF Ok(r) THEN [Tick(hist) EXCEPT !.allocated = {r.out}] ELSE Tick(hist)

NextDrop == DropInsert \/ DropDropTable \/ DropCreateTable

SpecDrop == InitDrop /\ [][NextDrop]_vars

\* the pages of the table's heap chain in state s: the root and its successors
HeapChain(s) == {TableRoot} \cup ChainAfter(s, TableRoot, MaxPages)

\* C35: DROP TABLE returns every page of the dropped table's heap chain to
\* the freelist: after the statement every page that belonged to the table
\* is reachable from the freelist.
C35_DropFreesHeapChain ==
    [][(op'.name = "drop_table" /\ op'.err = "OK" /\ op'.ok) =>
          HeapChain(Cur) \subseteq FreeIds(disk', first_trunk_id_', Len(disk'))]_vars

\* ------------------------------------------------------------ heap chain claim
\* the chain from page id, whose predecessor is prev, is well formed in state
\* s: DATA pages, each naming its predecessor, ending within fuel pages at
\* the heap's cached tail
RECURSIVE ChainFrom(_, _, _, _)
ChainFrom(s, id, prev, fuel) ==
    /\ fuel > 0
    /\ can_read_page(s.disk, id)
    /\ Bind(PageNow(s, id), LAMBDA p :
          /\ p.page_type = "DATA"
          /\ p.prev_page_id = prev
          /\ IF is_valid_page(p.next_page_id)
             THEN ChainFrom(s, p.next_page_id, id, fuel - 1)
             ELSE s.tail_page_id_ = id)

\* C36: after any sequence of TableHeap insert, erase, update and truncate
\* calls, the pages reachable from the root through next_page_id form a
\* finite acyclic chain of DATA pages in which the root's prev_page_id is
\* invalid, every other page's prev_page_id is the id of its predecessor, the
\* last page's next_page_id is invalid, and the heap's cached tail is that
\* last page.
C36_HeapChain ==
    [][op'.name \in {"insert", "erase", "update", "truncate"} =>
          ChainFrom(Nxt, root_page_id_', INVALID_PAGE_ID, MaxPages + 1)]_vars

\* rows were moved or added until the chain has three pages, and the call
\* that appended the third page has returned
C36_ThirdPageAppended ==
    /\ op.name \in {"insert", "update"} /\ op.err = "OK"
    /\ op.loc.page_id = tail_page_id_
    /\ tail_page_id_ # root_page_id_
    /\ PageNow(Cur, tail_page_id_).prev_page_id # root_page_id_
    /\ PageNow(Cur, root_page_id_).next_page_id = PageNow(Cur, tail_page_id_).prev_page_id

\* ------------------------------------------------------------ full catalog page claim
\* catalog page id has no room for one more entry
CatalogPageFull(id) == ~Page_insert(PageNow(Cur, id), serialize_table(NoEntry)).ok

\* C37: when a catalog page has no room for an entry of a new table,
\* create_table fails with PAGE_FULL (and no other error kind), and both
\* catalog pages are left with pin_count 0.
C37_FullCatalogPage ==
    [][(/\ op'.name = "create_table"
        /\ ~table_exists(Cur, op'.id)
        /\ CatalogPageFull(catalog_tables_root_) \/ CatalogPageFull(catalog_columns_root_)) =>
          /\ op'.err = "PAGE_FULL"
          /\ \A f \in DOMAIN frames :
                frames'[f].id \in {catalog_tables_root_, catalog_columns_root_}
                   => frames'[f].pin_count = 0]_vars

\* ------------------------------------------------------------ metadata page
\* number of calls in a run on a file that may predate the catalog
MaxMetaSteps == 4

\* a metadata page written before schema version 2: magic, version 1 and the
\* freelist fields
LegacyMetadata == [Page_init(NewPageObject, "METADATA", FIRST_PAGE_ID)
                     EXCEPT !.meta = [ZeroMeta EXCEPT !.magic = TRUE, !.version = 1]]

\* the files a PageManager is opened on: no file yet, a file whose first page
\* was allocated and never written (init_metadata_if_needed interrupted after
\* allocate_page), and a version 1 file
MetaFiles == {<<>>, <<ZeroPage>>, <<LegacyMetadata>>}

InitMeta ==
    \E d \in MetaFiles :
       \E r \in {PageManager_ctor(d, Capacity)} :
          /\ Starts(r)
          /\ op = Call("open", 0, r)
          /\ hist = NoHist

\* one more PageManager call made
MetaStep(name, id, r) ==
    /\ hist.steps < MaxMetaSteps
    /\ Becomes(r)
    /\ op' = Call(name, id, r)

\* pm.new_page(PageType::DATA) followed by pm.unpin(id, false)
MetaNewPage ==
    \E a \in {new_page(Cur, "DATA")} :
    \E r \in {IF Ok(a) THEN [unpin(a, a.out, FALSE) EXCEPT !.out = a.out] ELSE a} :
       /\ MetaStep("new_page", 0, r)
       /\ hist' = IF Ok(r) THEN [Tick(hist) EXCEPT !.allocated = @ \cup {r.out}] ELSE Tick(hist)

\* pm.free_page(id) of a page new_page gave out
MetaFreePage ==
    \E id \in hist.allocated :
       \E r \in {free_page(Cur, id)} :
          /\ MetaStep("free_page", id, r)
          /\ hist' = IF Ok(r) THEN [Tick(hist) EXCEPT !.allocated = @ \ {id}] ELSE Tick(hist)

\* CatalogManager::CatalogManager(pm, fm)
MetaCatalog ==
    \E r \in {ensure_catalog_pages(Cur)} :
       /\ MetaStep("ensure_catalog_pages", 0, r)
       /\ hist' = Tick(hist)

\* ~PageManager, close, and a new PageManager on the file
MetaReopen ==
    \E r \in {PageManager_ctor(flush_all(Cur).disk, Capacity)} :
       /\ MetaStep("open", 0, r)
       /\ hist' = Tick(hist)

NextMeta == MetaNewPage \/ MetaFreePage \/ MetaCatalog \/ MetaReopen

SpecMeta == InitMeta /\ [][NextMeta]_vars

\* the metadata fields the PageManager of state s holds in memory
Metadata(s) == [first_trunk_id |-> s.first_trunk_id_, free_count |-> s.free_count_,
                catalog_tables_root |-> s.catalog_tables_root_,
                catalog_columns_root |-> s.catalog_columns_root_,
                next_table_id |-> s.next_table_id_]

\* the same fields as the metadata page of the file holds them
MetadataOnDisk(s) ==
    Bind(s.disk[FIRST_PAGE_ID].meta, LAMBDA m :
       [first_trunk_id |-> m.first_trunk_id, free_count |-> m.free_count,
        catalog_tables_root |-> m.catalog_tables_root,
        catalog_columns_root |-> m.catalog_columns_root,
        next_table_id |-> m.next_table_id])

\* C38: when a PageManager operation that changes first_trunk_id, free_count,
\* a catalog root or next_table_id returns, the metadata page on disk holds
\* the new values, and nothing later overwrites page 1 with older values; a
\* close and reopen therefore observes the same metadata as before the close.
C38_MetadataPersisted ==
    [][/\ hist.steps = 0 => MetadataOnDisk(Cur) = Metadata(Cur)
       /\ MetadataOnDisk(Nxt) = Metadata(Nxt)
       /\ op'.name = "open" => Metadata(Nxt) = Metadata(Cur)]_vars

\* ------------------------------------------------------------ corrupt page header
\* number of Page calls made on a page whose header is corrupt
MaxCorruptSteps == 2

\* a DATA page that holds the records of payloads, in this order
RECURSIVE Loaded(_, _)
Loaded(payloads, n) ==
    IF n = 0 THEN Storage_init(NewStorage, "DATA", 1)
    ELSE Storage_insert(Loaded(payloads, n - 1), payloads[n]).p

\* the ways a header is corrupt: slot_count above the theoretical maximum,
\* record_count above slot_count, free_space_offset below the header or past
\* the end of the page
CorruptHeaders(p) ==
    {[p EXCEPT !.slot_count = (PAGE_SIZE - PAGE_HEADER_SIZE) \div SLOT_SIZE + 1],
     [p EXCEPT !.record_count = p.slot_count + 1],
     [p EXCEPT !.free_space_offset = PAGE_HEADER_SIZE - 1],
     [p EXCEPT !.free_space_offset = PAGE_SIZE + 1]}

\* a page with one or two records whose header was overwritten
InitCorrupt ==
    /\ \E r \in {PageManager_ctor(<<>>, Capacity)} :
          /\ disk = r.disk
          /\ frames = r.frames
          /\ page_table = r.page_table
          /\ lru = r.lru
          /\ first_trunk_id_ = r.first_trunk_id_
          /\ free_count_ = r.free_count_
          /\ catalog_tables_root_ = r.catalog_tables_root_
          /\ catalog_columns_root_ = r.catalog_columns_root_
          /\ next_table_id_ = r.next_table_id_
          /\ root_page_id_ = r.root_page_id_
          /\ tail_page_id_ = r.tail_page_id_
          /\ tables_loaded_ = r.tables_loaded_
          /\ tables_cache_ = r.tables_cache_
          /\ sidecars = r.sidecars
    /\ \E payloads \in {<<<<7>>>>, <<<<7>>, <<8, 8>>>>} :
          storage_ \in CorruptHeaders(Loaded(payloads, Len(payloads)))
    /\ op = Call("Page", 0, Cur)
    /\ hist = NoHist

\* a Page call on that page
CorruptStep(name, slot, payload, res) ==
    /\ hist.steps < MaxCorruptSteps
    /\ storage_' = res.p
    /\ op' = PageCall(name, slot, payload, res)
    /\ hist' = Tick(hist)
    /\ UNCHANGED <<disk, frames, page_table, lru, first_trunk_id_, free_count_,
                   catalog_tables_root_, catalog_columns_root_, next_table_id_,
                   root_page_id_, tail_page_id_, tables_loaded_, tables_cache_, sidecars>>

\* page.insert(payload, len, out_slot)
CorruptInsert ==
    \E payload \in PagePayloads :
       CorruptStep("insert", 0, payload, Storage_insert(storage_, payload))

\* page.erase(slot)
CorruptErase ==
    \E slot \in 0..1 :
       CorruptStep("erase", slot, <<>>, Storage_erase(storage_, slot))

\* page.update(slot, payload, len)
CorruptUpdate ==
    \E slot \in 0..1, payload \in PagePayloads :
       CorruptStep("update", slot, payload, Storage_update(storage_, slot, payload))

NextCorrupt == CorruptInsert \/ CorruptErase \/ CorruptUpdate

SpecCorrupt == InitCorrupt /\ [][NextCorrupt]_vars

\* C39: if a DATA page's header is corrupt (slot_count above the theoretical
\* maximum, record_count > slot_count, or free_space_offset out of range),
\* the next mutation (insert, erase or update) resets the page to
\* slot_count = 0, record_count = 0 and free_space_offset = header_size
\* before it acts, after which the slotted-page invariants hold.
C39_CorruptHeaderReset ==
    [][hist.steps = 0 =>
          /\ storage_'.slot_count = (IF op'.name = "insert" /\ op'.ok THEN 1 ELSE 0)
          /\ storage_'.record_count = storage_'.slot_count
          /\ storage_'.free_space_offset
                = (IF op'.name = "insert" /\ op'.ok
                   THEN PAGE_HEADER_SIZE + 2 + Len(op'.data) ELSE PAGE_HEADER_SIZE)
          /\ C15_PageLayout']_vars

\* ------------------------------------------------------------ cache coherence claim
\* C40: between buffer-pool calls, every cached frame that is not dirty holds
\* exactly the bytes of its page on disk, and every write of a page image to
\* disk by the freelist or catalog code is also reflected in that page's
\* cached frame, so that a later flush or eviction never replaces a newer
\* on-disk image with an older cached one.
C40_FramesMirrorDisk ==
    [][\A f \in DOMAIN frames' :
          (frames'[f].id # 0 /\ page_table'[frames'[f].id] = f) =>
             /\ (~frames'[f].dirty /\ frames'[f].pin_count = 0)
                   => frames'[f].page = disk'[frames'[f].id]
             /\ (frames'[f].id <= Len(disk) /\ disk'[frames'[f].id] # disk[frames'[f].id])
                   => frames'[f].page = disk'[frames'[f].id]]_vars

====
